---- MODULE Spec2Model ----
(***************************************************************************)
(* Verification model of the wasm-utils module rewriting passes:           *)
(*   - ref_list.rs   : RefList (order-aware shared entries)                *)
(*   - graph.rs      : graph module ingestion (from_elements) / emission   *)
(*   - optimizer.rs, symbols.rs : symbol reachability optimizer            *)
(*   - gas.rs, rules.rs : gas metering injector                            *)
(*   - stack_height/mod.rs : stack-height limiter and the execution of a   *)
(*                     module it instrumented                              *)
(*   - pack.rs       : constructor packer                                  *)
(*   - ext.rs        : externalizer                                        *)
(* Each component has its own specification (SpecRefList, SpecGraph,       *)
(* SpecOpt, SpecGas, SpecStack, SpecStackRun, SpecPack, SpecExt) over the  *)
(* shared variable tuple; the variables of the other components stay at    *)
(* their idle value.                                                       *)
(***************************************************************************)
EXTENDS Integers, Sequences, FiniteSets, TLC

VARIABLES
    list,        \* ref_list.rs: the RefList under test (items + entries)
    rl_last,     \* ref_list.rs: the last operation, its arguments and pre-state
    rl_panicked, \* ref_list.rs: TRUE once an operation has panicked
    g_in,        \* graph.rs: the structural module given to from_elements
    g_out,       \* graph.rs: the structural module produced by generate
    g_pc,        \* graph.rs: "start" | "parsed" | "done"
    g_graph,     \* graph.rs: the graph module built by from_elements
    o_in,        \* optimizer.rs: module and keep-list given to optimize
    o_out,       \* optimizer.rs: result of optimize (status + module)
    o_pc,        \* optimizer.rs: "start" | "done"
    gas_in,      \* gas.rs: module and rule set given to inject_gas_counter
    gas_out,     \* gas.rs: result of inject_gas_counter
    gas_pc,      \* gas.rs: "start" | "done" | "running"
    gas_run,     \* gas.rs: the machine executing an instrumented body
    st_in,       \* stack_height: module and stack limit given to inject_stack_counter
    st_out,      \* stack_height: result of inject_stack_counter
    st_pc,       \* stack_height: "start" | "done" | "running"
    st_run,      \* stack_height: the machine executing the instrumented module
    pk_in,       \* pack.rs: raw module bytes and constructor module given to pack_instance
    pk_out,      \* pack.rs: result of pack_instance
    pk_pc,       \* pack.rs: "start" | "done"
    x_in,        \* ext.rs: module and arguments given to the pass
    x_out,       \* ext.rs: result of the pass
    x_pc         \* ext.rs: "start" | "done"

vars == <<list, rl_last, rl_panicked, g_in, g_out, g_pc, g_graph,
          o_in, o_out, o_pc, gas_in, gas_out, gas_pc, gas_run,
          st_in, st_out, st_pc, st_run, pk_in, pk_out, pk_pc, x_in, x_out, x_pc>>

rlVars  == <<list, rl_last, rl_panicked>>
gVars   == <<g_in, g_out, g_pc, g_graph>>
oVars   == <<o_in, o_out, o_pc>>
gasVars == <<gas_in, gas_out, gas_pc, gas_run>>
stVars  == <<st_in, st_out, st_pc, st_run>>
pkVars  == <<pk_in, pk_out, pk_pc>>
xVars   == <<x_in, x_out, x_pc>>

(***************************************************************************)
(* Generic helpers.                                                        *)
(***************************************************************************)

\* Option<T>: None is the empty tuple, Some(x) the one-element tuple.
None == <<>>
Some(x) == <<x>>

\* Vec::remove(i) for a 0-based index i < len.
RemoveAt(s, i) == SubSeq(s, 1, i) \o SubSeq(s, i + 2, Len(s))

\* 0-based positions of a sequence.
Positions(s) == 0 .. (Len(s) - 1)

RECURSIVE SumSeq(_)
SumSeq(s) == IF s = <<>> THEN 0 ELSE Head(s) + SumSeq(Tail(s))

\* The strictly increasing sequence listing the finite set S of naturals.
RECURSIVE SortedSeq(_)
SortedSeq(S) ==
    IF S = {} THEN <<>>
    ELSE LET m == CHOOSE x \in S : \A y \in S : x <= y
         IN <<m>> \o SortedSeq(S \ {m})

\* iter().take_while(p).count() for the predicate "x < bound".
RECURSIVE TakeWhileLess(_, _)
TakeWhileLess(s, bound) ==
    IF s = <<>> \/ ~(Head(s) < bound) THEN 0
    ELSE 1 + TakeWhileLess(Tail(s), bound)

(***************************************************************************)
(* ref_list.rs                                                             *)
(* A RefList value is [items, entries]: entries[h] is the shared cell of   *)
(* handle h (an EntryRef), items is the Vec<EntryRef> of the list.         *)
(***************************************************************************)

MaxPush == 5          \* bound: entries ever pushed to the list under test
Vals == {10, 20}      \* values stored in the list under test

Detached == [tag |-> "Detached"]
Index(i) == [tag |-> "Index", idx |-> i]

\* Entry::new
EntryNew(val, index) == [val |-> val, index |-> Index(index)]

\* Entry::order
EntryOrder(e) == IF e.index.tag = "Detached" THEN None ELSE Some(e.index.idx)

\* RefList::new / Default
RefListNew == [items |-> <<>>, entries |-> <<>>]

\* EntryRef::order / EntryRef::read (through the shared cell)
order(l, h) == EntryOrder(l.entries[h])
read(l, h) == l.entries[h].val

\* RefList::push: the new entry takes index items.len().
push(l, t) ==
    LET idx == Len(l.items)
        h == Len(l.entries) + 1
    IN [list |-> [items |-> Append(l.items, h),
                  entries |-> Append(l.entries, EntryNew(t, idx))],
        ref |-> h]

\* RefList::get
get(l, idx) == IF idx < Len(l.items) THEN Some(l.items[idx + 1]) ELSE None

\* done_delete, first loop: items.remove(*idx) for every idx in turn, each
\* removed entry becomes Detached.  Vec::remove panics when idx >= len.
RECURSIVE DetachLoop(_, _)
DetachLoop(l, indices) ==
    IF indices = <<>> THEN [list |-> l, panicked |-> FALSE]
    ELSE LET idx == Head(indices) IN
         IF idx >= Len(l.items) THEN [list |-> l, panicked |-> TRUE]
         ELSE LET h == l.items[idx + 1]
                  l2 == [items |-> RemoveAt(l.items, idx),
                         entries |-> [l.entries EXCEPT ![h].index = Detached]]
              IN DetachLoop(l2, Tail(indices))

\* done_delete, second loop: every entry left in items has its index
\* decreased by the number of leading deleted indices smaller than it.
RenumberLoop(l, indices) ==
    [l EXCEPT !.entries =
        [h \in DOMAIN l.entries |->
            IF \E i \in DOMAIN l.items : l.items[i] = h
            THEN LET e == l.entries[h]
                     total_less == TakeWhileLess(indices, e.index.idx)
                 IN [e EXCEPT !.index = Index(e.index.idx - total_less)]
            ELSE l.entries[h]]]

\* RefList::done_delete (also delete, delete_one, DeleteTransaction::done)
done_delete(l, indices) ==
    LET d == DetachLoop(l, indices)
    IN IF d.panicked THEN d
       ELSE [list |-> RenumberLoop(d.list, indices), panicked |-> FALSE]

\* DeleteTransaction: begin_delete().push(i1)...push(ik).done()
DeleteTransactionDone(l, deleted) == done_delete(l, deleted)

RLIdle == [op |-> "none"]

RLInit ==
    /\ list = RefListNew
    /\ rl_last = RLIdle
    /\ rl_panicked = FALSE

RLPush(t) ==
    /\ ~rl_panicked
    /\ Len(list.entries) < MaxPush
    /\ LET r == push(list, t) IN
        /\ list' = r.list
        /\ rl_last' = [op |-> "push", pre |-> list, ref |-> r.ref]
    /\ UNCHANGED rl_panicked

\* delete(S) for a strictly increasing S within [0, len)
RLDelete(S) ==
    /\ ~rl_panicked
    /\ LET indices == SortedSeq(S)
           r == DeleteTransactionDone(list, indices) IN
        /\ list' = r.list
        /\ rl_panicked' = r.panicked
        /\ rl_last' = [op |-> "delete", pre |-> list, indices |-> indices]

GIdle == [tag |-> "idle"]

StIdle == st_in = GIdle /\ st_out = GIdle /\ st_pc = "idle" /\ st_run = GIdle
PkIdle == pk_in = GIdle /\ pk_out = GIdle /\ pk_pc = "idle"
XIdle == x_in = GIdle /\ x_out = GIdle /\ x_pc = "idle"

OtherIdleRL ==
    /\ g_in = GIdle /\ g_out = GIdle /\ g_pc = "idle" /\ g_graph = GIdle
    /\ o_in = GIdle /\ o_out = GIdle /\ o_pc = "idle"
    /\ gas_in = GIdle /\ gas_out = GIdle /\ gas_pc = "idle" /\ gas_run = GIdle
    /\ StIdle /\ PkIdle /\ XIdle

InitRefList == RLInit /\ OtherIdleRL

NextRefList ==
    \/ \E t \in Vals : RLPush(t) /\ UNCHANGED <<gVars, oVars, gasVars, stVars, pkVars, xVars>>
    \/ \E S \in (SUBSET Positions(list.items)) \ {{}} :
          RLDelete(S) /\ UNCHANGED <<gVars, oVars, gasVars, stVars, pkVars, xVars>>

SpecRefList == InitRefList /\ [][NextRefList]_vars

\* ---- claims about ref_list.rs ----

\* Number of deleted indices smaller than p.
DeletedBelow(indices, p) ==
    Cardinality({i \in DOMAIN indices : indices[i] < p})

InSeq(indices, p) == \E i \in DOMAIN indices : indices[i] = p

\* C1: after delete(S) with S strictly increasing and in range, the call
\* completes; every handle at an original position outside S has order
\* original position minus the number of smaller elements of S; exactly the
\* handles at positions in S are detached and keep their value; and the
\* length is the original length minus |S|.
C1_DeleteRenumbers ==
    rl_last.op = "delete" =>
        LET pre == rl_last.pre
            S == rl_last.indices
        IN /\ ~rl_panicked
           /\ Len(list.items) = Len(pre.items) - Len(S)
           /\ \A p \in Positions(pre.items) :
                LET h == pre.items[p + 1] IN
                /\ read(list, h) = read(pre, h)
                /\ IF InSeq(S, p)
                   THEN order(list, h) = None
                   ELSE order(list, h) = Some(p - DeletedBelow(S, p))

\* C2: whenever no operation has panicked, the entry stored at position i
\* reports order() = Some(i) for every i in [0, len), and a push returns a
\* handle whose order is the length before the push.
C2_Dense ==
    ~rl_panicked =>
        /\ \A i \in Positions(list.items) : order(list, list.items[i + 1]) = Some(i)
        /\ (rl_last.op = "push" =>
                order(list, rl_last.ref) = Some(Len(rl_last.pre.items)))


(***************************************************************************)
(* parity_wasm::elements as used by graph.rs, optimizer.rs and gas.rs:     *)
(* a Module is a sequence of sections, a section a record with its kind    *)
(* and its entries, an instruction a record with its opcode and operands.  *)
(***************************************************************************)

\* elements::Instruction / elements::Opcode
Call(i) == [op |-> "Call", idx |-> i]
CallIndirect(t, r) == [op |-> "CallIndirect", idx |-> t, reserved |-> r]
GetGlobal(i) == [op |-> "GetGlobal", idx |-> i]
SetGlobal(i) == [op |-> "SetGlobal", idx |-> i]
GetLocal(i) == [op |-> "GetLocal", idx |-> i]
I32Const(v) == [op |-> "I32Const", val |-> v]
F32Const(v) == [op |-> "F32Const", val |-> v]
GrowMemory(r) == [op |-> "GrowMemory", reserved |-> r]
Plain(name) == [op |-> name]
End == Plain("End")
Else == Plain("Else")
Drop == Plain("Drop")
I32Mul == Plain("I32Mul")
BlockI == Plain("Block")
LoopI == Plain("Loop")
IfI == Plain("If")

\* elements::Type::Function(FunctionType)
FuncType(params, ret) == [params |-> params, ret |-> ret]

\* elements::Section variants.  Each variant names its payload after the
\* accessor of its section type (types(), entries(), bodies()).
TypeSection(types) == [kind |-> "Type", types |-> types]
ImportSection(entries) == [kind |-> "Import", imports |-> entries]
FunctionSection(entries) == [kind |-> "Function", funcs |-> entries]
TableSection(entries) == [kind |-> "Table", tables |-> entries]
MemorySection(entries) == [kind |-> "Memory", memories |-> entries]
GlobalSection(entries) == [kind |-> "Global", globals |-> entries]
ExportSection(entries) == [kind |-> "Export", exports |-> entries]
StartSection(f) == [kind |-> "Start", idx |-> f]
ElementSection(entries) == [kind |-> "Element", elements |-> entries]
CodeSection(bodies) == [kind |-> "Code", bodies |-> bodies]
DataSection(entries) == [kind |-> "Data", data |-> entries]
CustomSection(name) == [kind |-> "Custom", name |-> name]

\* types() / entries() / bodies() of a section
Entries(section) ==
    CASE section.kind = "Type" -> section.types
      [] section.kind = "Import" -> section.imports
      [] section.kind = "Function" -> section.funcs
      [] section.kind = "Table" -> section.tables
      [] section.kind = "Memory" -> section.memories
      [] section.kind = "Global" -> section.globals
      [] section.kind = "Export" -> section.exports
      [] section.kind = "Element" -> section.elements
      [] section.kind = "Code" -> section.bodies
      [] section.kind = "Data" -> section.data

\* types_mut() / entries_mut() / bodies_mut(): the section with new entries
WithEntries(section, es) ==
    CASE section.kind = "Type" -> TypeSection(es)
      [] section.kind = "Import" -> ImportSection(es)
      [] section.kind = "Function" -> FunctionSection(es)
      [] section.kind = "Table" -> TableSection(es)
      [] section.kind = "Memory" -> MemorySection(es)
      [] section.kind = "Global" -> GlobalSection(es)
      [] section.kind = "Export" -> ExportSection(es)
      [] section.kind = "Element" -> ElementSection(es)
      [] section.kind = "Code" -> CodeSection(es)
      [] section.kind = "Data" -> DataSection(es)

\* elements::ImportEntry::new and elements::External
ImportEntry(module, field, external) ==
    [module |-> module, field |-> field, external |-> external]
ExtFunction(t) == [kind |-> "Function", type_ref |-> t]
ExtGlobal(content, is_mut) == [kind |-> "Global", content |-> content, is_mut |-> is_mut]
ExtMemory(initial, maximum) == [kind |-> "Memory", initial |-> initial, maximum |-> maximum]
ExtTable(initial, maximum) == [kind |-> "Table", initial |-> initial, maximum |-> maximum]

\* elements::ResizableLimits (of a declared memory or table)
Limits(initial, maximum) == [initial |-> initial, maximum |-> maximum]

\* elements::GlobalEntry::new(GlobalType::new(content, is_mut), InitExpr)
GlobalEntry(content, is_mut, init) ==
    [content |-> content, is_mut |-> is_mut, init |-> init]

\* elements::ExportEntry::new and elements::Internal
ExportEntry(field, kind, idx) ==
    [field |-> field, internal |-> [kind |-> kind, idx |-> idx]]

\* elements::ElementSegment::new(index, offset, members)
ElementSegmentE(index, offset, members) ==
    [index |-> index, offset |-> offset, members |-> members]

\* elements::DataSegment::new(index, offset, value)
DataSegmentE(index, offset, value) ==
    [index |-> index, offset |-> offset, value |-> value]

\* elements::FuncBody::new(locals, Instructions)
FuncBodyE(locals, code) == [locals |-> locals, code |-> code]

\* elements::Module::new(sections)
ModuleNew(sections) == [sections |-> sections]

\* Position (1-based) of the first section of a kind, 0 when there is none:
\* Module::type_section(), import_section(), ... all return the first match.
SectionPos(m, kind) ==
    IF \E i \in DOMAIN m.sections : m.sections[i].kind = kind
    THEN CHOOSE i \in DOMAIN m.sections :
            /\ m.sections[i].kind = kind
            /\ \A j \in DOMAIN m.sections : m.sections[j].kind = kind => i <= j
    ELSE 0

HasSection(m, kind) == SectionPos(m, kind) # 0

\* Entries of the first section of a kind (<<>> when absent).
SectionEntries(m, kind) ==
    IF HasSection(m, kind) THEN Entries(m.sections[SectionPos(m, kind)]) ELSE <<>>

\* The subsequence of s whose elements satisfy the kind test.
RECURSIVE SelectKind(_, _)
SelectKind(s, kind) ==
    IF s = <<>> THEN <<>>
    ELSE (IF Head(s).external.kind = kind THEN <<Head(s)>> ELSE <<>>)
         \o SelectKind(Tail(s), kind)

\* Module::import_count(ImportCountType::Function / Global)
import_count(m, kind) == Len(SelectKind(SectionEntries(m, "Import"), kind))

\* Module::functions_space: function imports plus function section entries
functions_space(m) ==
    import_count(m, "Function") + Len(SectionEntries(m, "Function"))


(***************************************************************************)
(* graph.rs                                                                *)
(***************************************************************************)

\* RefList::clone_ref / get_ref / len / from_slice as graph.rs uses them:
\* the handle stored at a position, the number of items, a list of pushes.
clone_ref(l, idx) == l.items[idx + 1]
get_ref(l, idx) == l.items[idx + 1]
len(l) == Len(l.items)

RECURSIVE PushAll(_, _)
PushAll(l, ts) ==
    IF ts = <<>> THEN l ELSE PushAll(push(l, Head(ts)).list, Tail(ts))

from_slice(ts) == PushAll(RefListNew, ts)

\* ImportedOrDeclared
Imported(module, field) == [tag |-> "Imported", module |-> module, field |-> field]
Declared(t) == [tag |-> "Declared", body |-> t]

\* impl From<&ImportEntry> for ImportedOrDeclared
OriginOf(entry) == Imported(entry.module, entry.field)

\* graph::FuncBody, graph::Func, graph::Global, graph::Memory, graph::Table
GFuncBody(locals, code) == [locals |-> locals, code |-> code]
GFunc(type_ref, origin) == [type_ref |-> type_ref, origin |-> origin]
GGlobal(content, is_mut, origin) ==
    [content |-> content, is_mut |-> is_mut, origin |-> origin]
GMemory(limits, origin) == [limits |-> limits, origin |-> origin]
GTable(limits, origin) == [limits |-> limits, origin |-> origin]

\* Module::default()
GraphDefault ==
    [types |-> RefListNew, funcs |-> RefListNew, memory |-> RefListNew,
     tables |-> RefListNew, globals |-> RefListNew, start |-> None,
     exports |-> <<>>, elements |-> <<>>, data |-> <<>>, other |-> <<>>]

\* Module::map_instructions: the four referential instructions get a
\* handle, every other instruction is kept as Plain.
map_instruction(g, i) ==
    CASE i.op = "Call" -> [tag |-> "Call", ref |-> clone_ref(g.funcs, i.idx)]
      [] i.op = "CallIndirect" ->
            [tag |-> "CallIndirect", ref |-> clone_ref(g.types, i.idx),
             reserved |-> i.reserved]
      [] i.op = "SetGlobal" -> [tag |-> "SetGlobal", ref |-> clone_ref(g.globals, i.idx)]
      [] i.op = "GetGlobal" -> [tag |-> "GetGlobal", ref |-> clone_ref(g.globals, i.idx)]
      [] OTHER -> [tag |-> "Plain", instr |-> i]

map_instructions(g, instructions) ==
    [k \in DOMAIN instructions |-> map_instruction(g, instructions[k])]

\* Module::generate_instructions: the index written for a handle is its
\* current order; a detached handle panics (expect).
OrderIdx(l, h) == order(l, h)[1]

generate_instruction(g, i) ==
    CASE i.tag = "Call" -> Call(OrderIdx(g.funcs, i.ref))
      [] i.tag = "CallIndirect" -> CallIndirect(OrderIdx(g.types, i.ref), i.reserved)
      [] i.tag = "SetGlobal" -> SetGlobal(OrderIdx(g.globals, i.ref))
      [] i.tag = "GetGlobal" -> GetGlobal(OrderIdx(g.globals, i.ref))
      [] OTHER -> i.instr

generate_instructions(g, instructions) ==
    [k \in DOMAIN instructions |-> generate_instruction(g, instructions[k])]

\* from_elements, Section::Import: one push per entry, by kind.
RECURSIVE IngestImports(_, _)
IngestImports(st, entries) ==
    IF entries = <<>> THEN st
    ELSE LET entry == Head(entries)
             x == entry.external
             res == st.res
             st2 ==
               CASE x.kind = "Function" ->
                      [st EXCEPT
                        !.res.funcs = push(res.funcs,
                            GFunc(get(res.types, x.type_ref)[1], OriginOf(entry))).list,
                        !.imported_functions = @ + 1]
                 [] x.kind = "Memory" ->
                      [st EXCEPT !.res.memory = push(res.memory,
                            GMemory(Limits(x.initial, x.maximum), OriginOf(entry))).list]
                 [] x.kind = "Global" ->
                      [st EXCEPT !.res.globals = push(res.globals,
                            GGlobal(x.content, x.is_mut, OriginOf(entry))).list]
                 [] x.kind = "Table" ->
                      [st EXCEPT !.res.tables = push(res.tables,
                            GTable(Limits(x.initial, x.maximum), OriginOf(entry))).list]
         IN IngestImports(st2, Tail(entries))

\* from_elements, Section::Function: a Declared func with an empty body.
RECURSIVE IngestFunctions(_, _)
IngestFunctions(res, entries) ==
    IF entries = <<>> THEN res
    ELSE IngestFunctions(
            [res EXCEPT !.funcs = push(res.funcs,
                GFunc(get(res.types, Head(entries))[1],
                      Declared(GFuncBody(<<>>, <<>>)))).list],
            Tail(entries))

\* from_elements, Section::Table and Section::Memory
RECURSIVE IngestTables(_, _)
IngestTables(res, entries) ==
    IF entries = <<>> THEN res
    ELSE IngestTables(
            [res EXCEPT !.tables = push(res.tables,
                GTable(Head(entries), Declared(<<>>))).list],
            Tail(entries))

RECURSIVE IngestMemories(_, _)
IngestMemories(res, entries) ==
    IF entries = <<>> THEN res
    ELSE IngestMemories(
            [res EXCEPT !.memory = push(res.memory,
                GMemory(Head(entries), Declared(<<>>))).list],
            Tail(entries))

\* from_elements, Section::Global: the initializer is mapped against the
\* globals pushed so far.
RECURSIVE IngestGlobals(_, _)
IngestGlobals(res, entries) ==
    IF entries = <<>> THEN res
    ELSE LET g == Head(entries)
             init_code == map_instructions(res, g.init)
         IN IngestGlobals(
                [res EXCEPT !.globals = push(res.globals,
                    GGlobal(g.content, g.is_mut, Declared(init_code))).list],
                Tail(entries))

\* from_elements, Section::Export
IngestExport(res, e) ==
    LET k == e.internal.kind
        i == e.internal.idx
        local ==
          CASE k = "Function" -> [kind |-> "Func", ref |-> clone_ref(res.funcs, i)]
            [] k = "Global" -> [kind |-> "Global", ref |-> clone_ref(res.globals, i)]
            [] k = "Memory" -> [kind |-> "Memory", ref |-> clone_ref(res.memory, i)]
            [] k = "Table" -> [kind |-> "Table", ref |-> clone_ref(res.tables, i)]
    IN [local |-> local, name |-> e.field]

\* from_elements, Section::Element and Section::Data: always
\* SegmentLocation::Default with the mapped offset expression.
IngestElement(res, seg) ==
    [value |-> seg.members,
     location |-> [tag |-> "Default", code |-> map_instructions(res, seg.offset)]]

IngestData(res, seg) ==
    [value |-> seg.value,
     location |-> [tag |-> "Default", code |-> map_instructions(res, seg.offset)]]

\* from_elements, Section::Code: the local idx is set to 0 before the loop
\* and is not advanced in it, so every body is written to the function at
\* imported_functions + 0.
RECURSIVE IngestCode(_, _, _, _)
IngestCode(res, bodies, imported_functions, idx) ==
    IF bodies = <<>> THEN res
    ELSE LET func_body == Head(bodies)
             code == map_instructions(res, func_body.code)
             h == get_ref(res.funcs, imported_functions + idx)
             res2 == [res EXCEPT !.funcs.entries[h].val.origin =
                        Declared(GFuncBody(func_body.locals, code))]
         IN IngestCode(res2, Tail(bodies), imported_functions, idx)

\* from_elements: one step of the loop over module.sections()
IngestSection(st, section) ==
    LET res == st.res
        k == section.kind
        st2 ==
          CASE k = "Type" -> [st EXCEPT !.res.types = from_slice(Entries(section))]
            [] k = "Import" -> IngestImports(st, Entries(section))
            [] k = "Function" -> [st EXCEPT !.res = IngestFunctions(res, Entries(section))]
            [] k = "Table" -> [st EXCEPT !.res = IngestTables(res, Entries(section))]
            [] k = "Memory" -> [st EXCEPT !.res = IngestMemories(res, Entries(section))]
            [] k = "Global" -> [st EXCEPT !.res = IngestGlobals(res, Entries(section))]
            [] k = "Export" ->
                 [st EXCEPT !.res.exports = @ \o
                    [i \in DOMAIN Entries(section) |-> IngestExport(res, Entries(section)[i])]]
            [] k = "Start" ->
                 [st EXCEPT !.res.start = Some(clone_ref(res.funcs, section.idx))]
            [] k = "Element" ->
                 [st EXCEPT !.res.elements = @ \o
                    [i \in DOMAIN Entries(section) |-> IngestElement(res, Entries(section)[i])]]
            [] k = "Code" ->
                 [st EXCEPT !.res =
                    IngestCode(res, Entries(section), st.imported_functions, 0)]
            [] k = "Data" ->
                 [st EXCEPT !.res.data = @ \o
                    [i \in DOMAIN Entries(section) |-> IngestData(res, Entries(section)[i])]]
            [] OTHER -> [st EXCEPT !.res.other = (st.idx :> section) @@ @]
    IN [st2 EXCEPT !.idx = @ + 1]

RECURSIVE IngestSections(_, _)
IngestSections(st, sections) ==
    IF sections = <<>> THEN st
    ELSE IngestSections(IngestSection(st, Head(sections)), Tail(sections))

\* Module::from_elements
from_elements(module) ==
    IngestSections([res |-> GraphDefault, idx |-> 0, imported_functions |-> 0],
                   module.sections).res


\* custom_round: emit the preserved sections stored at idx, idx+1, ...
RECURSIVE custom_round(_, _)
custom_round(map, st) ==
    IF st.idx \in DOMAIN map
    THEN custom_round(map, [idx |-> st.idx + 1,
                            sections |-> Append(st.sections, map[st.idx])])
    ELSE st

\* sections.push(section); idx += 1; custom_round(..)
EmitSection(g, st, section) ==
    custom_round(g.other, [idx |-> st.idx + 1,
                           sections |-> Append(st.sections, section)])

\* RefList::iter: the entries of the list in item order
IterVals(l) == [i \in DOMAIN l.items |-> l.entries[l.items[i]].val]

\* The elements of a sequence of graph entries with a given origin tag.
RECURSIVE WithOrigin(_, _)
WithOrigin(s, tag) ==
    IF s = <<>> THEN <<>>
    ELSE (IF Head(s).origin.tag = tag THEN <<Head(s)>> ELSE <<>>)
         \o WithOrigin(Tail(s), tag)

\* generate, IMPORT SECTION: imported funcs, then imported globals, then
\* imported memories, then imported tables.
GenImports(g) ==
    LET fs == WithOrigin(IterVals(g.funcs), "Imported")
        gs == WithOrigin(IterVals(g.globals), "Imported")
        ms == WithOrigin(IterVals(g.memory), "Imported")
        ts == WithOrigin(IterVals(g.tables), "Imported")
    IN [i \in DOMAIN fs |->
            ImportEntry(fs[i].origin.module, fs[i].origin.field,
                        ExtFunction(OrderIdx(g.types, fs[i].type_ref)))]
       \o [i \in DOMAIN gs |->
            ImportEntry(gs[i].origin.module, gs[i].origin.field,
                        ExtGlobal(gs[i].content, gs[i].is_mut))]
       \o [i \in DOMAIN ms |->
            ImportEntry(ms[i].origin.module, ms[i].origin.field,
                        ExtMemory(ms[i].limits.initial, ms[i].limits.maximum))]
       \o [i \in DOMAIN ts |->
            ImportEntry(ts[i].origin.module, ts[i].origin.field,
                        ExtTable(ts[i].limits.initial, ts[i].limits.maximum))]

\* generate, FUNC / TABLE / MEMORY / GLOBAL / CODE sections: the declared
\* entries of the list, in order.
GenFuncs(g) ==
    LET ds == WithOrigin(IterVals(g.funcs), "Declared")
    IN [i \in DOMAIN ds |-> OrderIdx(g.types, ds[i].type_ref)]

GenTables(g) ==
    LET ds == WithOrigin(IterVals(g.tables), "Declared")
    IN [i \in DOMAIN ds |-> Limits(ds[i].limits.initial, ds[i].limits.maximum)]

GenMemories(g) ==
    LET ds == WithOrigin(IterVals(g.memory), "Declared")
    IN [i \in DOMAIN ds |-> Limits(ds[i].limits.initial, ds[i].limits.maximum)]

GenGlobals(g) ==
    LET ds == WithOrigin(IterVals(g.globals), "Declared")
    IN [i \in DOMAIN ds |->
            GlobalEntry(ds[i].content, ds[i].is_mut,
                        generate_instructions(g, ds[i].origin.body))]

GenCode(g) ==
    LET ds == WithOrigin(IterVals(g.funcs), "Declared")
    IN [i \in DOMAIN ds |->
            FuncBodyE(ds[i].origin.body.locals,
                      generate_instructions(g, ds[i].origin.body.code))]

\* generate, EXPORT SECTION
GenExport(g, export) ==
    LET k == export.local.kind
        r == export.local.ref
    IN CASE k = "Func" -> ExportEntry(export.name, "Function", OrderIdx(g.funcs, r))
         [] k = "Global" -> ExportEntry(export.name, "Global", OrderIdx(g.globals, r))
         [] k = "Table" -> ExportEntry(export.name, "Table", OrderIdx(g.tables, r))
         [] k = "Memory" -> ExportEntry(export.name, "Memory", OrderIdx(g.memory, r))

\* generate, element and data sections
GenElement(g, element) ==
    ElementSegmentE(0, generate_instructions(g, element.location.code), element.value)

GenData(g, data_entry) ==
    DataSegmentE(0, generate_instructions(g, data_entry.location.code), data_entry.value)

\* Module::generate: the sections are emitted in this fixed order, each
\* under the condition the code tests.
generate(g) ==
    LET s0 == custom_round(g.other, [idx |-> 0, sections |-> <<>>])
        s1 == IF len(g.types) > 0
              THEN EmitSection(g, s0, TypeSection(IterVals(g.types))) ELSE s0
        imports == GenImports(g)
        s2 == IF Len(imports) > 0
              THEN EmitSection(g, s1, ImportSection(imports)) ELSE s1
        s3 == IF len(g.funcs) > 0
              THEN EmitSection(g, s2, FunctionSection(GenFuncs(g))) ELSE s2
        s4 == IF len(g.tables) > 0
              THEN EmitSection(g, s3, TableSection(GenTables(g))) ELSE s3
        s5 == IF len(g.memory) > 0
              THEN EmitSection(g, s4, MemorySection(GenMemories(g))) ELSE s4
        s6 == IF len(g.globals) > 0
              THEN EmitSection(g, s5, GlobalSection(GenGlobals(g))) ELSE s5
        s7 == IF Len(g.exports) > 0
              THEN EmitSection(g, s6, ExportSection(
                      [i \in DOMAIN g.exports |-> GenExport(g, g.exports[i])]))
              ELSE s6
        s8 == IF g.start # None
              THEN [s7 EXCEPT !.sections =
                      Append(@, StartSection(OrderIdx(g.funcs, g.start[1])))]
              ELSE s7
        s9 == IF Len(g.elements) > 0
              THEN EmitSection(g, s8, ElementSection(
                      [i \in DOMAIN g.elements |-> GenElement(g, g.elements[i])]))
              ELSE s8
        s10 == IF len(g.funcs) > 0
               THEN EmitSection(g, s9, CodeSection(GenCode(g))) ELSE s9
        s11 == IF Len(g.data) > 0
               THEN EmitSection(g, s10, DataSection(
                      [i \in DOMAIN g.data |-> GenData(g, g.data[i])]))
               ELSE s10
    IN ModuleNew(s11.sections)


\* ---- inputs of the graph round trip: valid modules in canonical order ----

MaxGFuncs == 2        \* bound: declared functions of a module given to the graph

\* elements::Local::new(count, value_type)
Local(count, type) == [count |-> count, type |-> type]

GTypes == <<FuncType(<<>>, None), FuncType(<<"I32">>, None)>>

GImpF1 == ImportEntry("env", "f1", ExtFunction(0))
GImpF2 == ImportEntry("env", "f2", ExtFunction(1))
GImpG == ImportEntry("env", "g", ExtGlobal("I32", FALSE))
GImpM == ImportEntry("env", "memory", ExtMemory(1, Some(2)))

\* import lists: none, one kind only, and several kinds interleaved
GImportLists ==
    { <<>>, <<GImpF1>>, <<GImpF1, GImpF2>>, <<GImpF1, GImpG>>,
      <<GImpG, GImpF1>>, <<GImpM, GImpF1>> }

GChoices ==
    [imports : GImportLists, nfuncs : 0 .. MaxGFuncs, bk : 1 .. 4,
     mem : BOOLEAN, glob : BOOLEAN, export : {"none", "func", "global"},
     start : BOOLEAN, elem : BOOLEAN, data : BOOLEAN, custom : BOOLEAN]

GNumFuncs(c) == Len(SelectKind(c.imports, "Function")) + c.nfuncs
GNumGlobals(c) == Len(SelectKind(c.imports, "Global")) + (IF c.glob THEN 1 ELSE 0)
GHasMemory(c) == c.mem \/ Len(SelectKind(c.imports, "Memory")) > 0

\* the choices that describe a valid module
GChoiceOk(c) ==
    /\ (c.nfuncs = 0 => c.bk = 1)
    /\ (c.bk = 3 => GNumGlobals(c) > 0)
    /\ (c.bk = 4 => c.elem)
    /\ (c.mem => Len(SelectKind(c.imports, "Memory")) = 0)
    /\ (c.export = "func" => GNumFuncs(c) > 0)
    /\ (c.export = "global" => GNumGlobals(c) > 0)
    /\ (c.start => c.nfuncs > 0)
    /\ (c.elem => GNumFuncs(c) > 0)
    /\ (c.data => GHasMemory(c))

\* body of the j-th declared function (j = 0 is the first one)
GBody(c, j) ==
    LET first == Len(SelectKind(c.imports, "Function")) IN
    IF j > 0 THEN FuncBodyE(<<Local(1, "I32")>>, <<I32Const(7), Drop, End>>)
    ELSE CASE c.bk = 1 -> FuncBodyE(<<>>, <<End>>)
           [] c.bk = 2 -> FuncBodyE(<<>>, <<Call(first + c.nfuncs - 1), End>>)
           [] c.bk = 3 -> FuncBodyE(<<>>, <<GetGlobal(0), SetGlobal(GNumGlobals(c) - 1), End>>)
           [] c.bk = 4 -> FuncBodyE(<<>>, <<I32Const(0), CallIndirect(1, 0), End>>)

GBuild(c) ==
    LET nf == GNumFuncs(c)
        opt(b, sec) == IF b THEN <<sec>> ELSE <<>>
    IN ModuleNew(
          opt(nf > 0, TypeSection(GTypes))
       \o opt(c.imports # <<>>, ImportSection(c.imports))
       \o opt(c.nfuncs > 0, FunctionSection([j \in 1 .. c.nfuncs |-> (j - 1) % 2]))
       \o opt(c.elem, TableSection(<<Limits(1, None)>>))
       \o opt(c.mem, MemorySection(<<Limits(1, Some(1))>>))
       \o opt(c.glob, GlobalSection(<<GlobalEntry("I32", TRUE, <<I32Const(0), End>>)>>))
       \o opt(c.export = "func",
              ExportSection(<<ExportEntry("simple", "Function", nf - 1)>>))
       \o opt(c.export = "global",
              ExportSection(<<ExportEntry("glob", "Global", GNumGlobals(c) - 1)>>))
       \o opt(c.start, StartSection(nf - 1))
       \o opt(c.elem, ElementSection(
              <<ElementSegmentE(0, <<I32Const(0), End>>, <<nf - 1>>)>>))
       \o opt(c.nfuncs > 0, CodeSection([j \in 1 .. c.nfuncs |-> GBody(c, j - 1)]))
       \o opt(c.data, DataSection(<<DataSegmentE(0, <<I32Const(4), End>>, <<1, 2>>)>>))
       \o opt(c.custom, CustomSection("name")))

GModules == { GBuild(c) : c \in { d \in GChoices : GChoiceOk(d) } }

OtherIdleG ==
    /\ list = RefListNew /\ rl_last = RLIdle /\ rl_panicked = FALSE
    /\ o_in = GIdle /\ o_out = GIdle /\ o_pc = "idle"
    /\ gas_in = GIdle /\ gas_out = GIdle /\ gas_pc = "idle" /\ gas_run = GIdle
    /\ StIdle /\ PkIdle /\ XIdle

GInit ==
    /\ g_in \in GModules
    /\ g_pc = "start"
    /\ g_graph = GIdle
    /\ g_out = GIdle

\* graph::parse: Module::from_elements on the decoded module
GParse ==
    /\ g_pc = "start"
    /\ g_graph' = from_elements(g_in)
    /\ g_pc' = "parsed"
    /\ UNCHANGED <<g_in, g_out>>

\* graph::generate: Module::generate on the graph
GGenerate ==
    /\ g_pc = "parsed"
    /\ g_out' = generate(g_graph)
    /\ g_pc' = "done"
    /\ UNCHANGED <<g_in, g_graph>>

InitGraph == GInit /\ OtherIdleG

NextGraph ==
    \/ GParse /\ UNCHANGED <<rlVars, oVars, gasVars, stVars, pkVars, xVars>>
    \/ GGenerate /\ UNCHANGED <<rlVars, oVars, gasVars, stVars, pkVars, xVars>>

SpecGraph == InitGraph /\ [][NextGraph]_vars

\* ---- claims about graph.rs ----

\* C3: generate(from_elements(M)) is the same module as M: the same
\* sections in the same order with the same entries, bodies and indices.
C3_RoundTrip == g_pc = "done" => g_out = g_in


(***************************************************************************)
(* symbols.rs                                                              *)
(* optimizer.rs and symbols.rs work on elements::Opcode, where Block, If   *)
(* and Loop carry their nested opcodes.                                    *)
(***************************************************************************)

\* elements::Opcode::Block(_, Opcodes) / If / Loop
BlockO(body) == [op |-> "Block", body |-> body]
IfO(body) == [op |-> "If", body |-> body]
LoopO(body) == [op |-> "Loop", body |-> body]

IsNested(opcode) == opcode.op \in {"Block", "If", "Loop"} /\ "body" \in DOMAIN opcode

\* enum Symbol
Symbol(kind, i) == [s |-> kind, i |-> i]

\* The outcome of an expect() on a section that is absent.
PanicSymbol == Symbol("Panic", 0)

\* 0-based positions of the import entries of a kind, in section order.
RECURSIVE KindPositions(_, _, _)
KindPositions(entries, kind, at) ==
    IF entries = <<>> THEN <<>>
    ELSE (IF Head(entries).external.kind = kind THEN <<at>> ELSE <<>>)
         \o KindPositions(Tail(entries), kind, at + 1)

\* resolve_function: the index-th function import, else the defined
\* function index - #function imports.  import_section().expect(..) panics
\* when the module has no import section.
resolve_function(m, index) ==
    IF ~HasSection(m, "Import") THEN PanicSymbol
    ELSE LET at == KindPositions(SectionEntries(m, "Import"), "Function", 0)
         IN IF index < Len(at) THEN Symbol("Import", at[index + 1])
            ELSE Symbol("Function", index - Len(at))

\* resolve_global: the same over global imports.
resolve_global(m, index) ==
    IF ~HasSection(m, "Import") THEN PanicSymbol
    ELSE LET at == KindPositions(SectionEntries(m, "Import"), "Global", 0)
         IN IF index < Len(at) THEN Symbol("Import", at[index + 1])
            ELSE Symbol("Global", index - Len(at))

\* push_code_symbols: Call, GetGlobal and SetGlobal push the resolved
\* symbol, If/Loop/Block recurse, any other opcode pushes nothing.
RECURSIVE push_code_symbols(_, _)
push_code_symbols(m, opcodes) ==
    IF opcodes = <<>> THEN <<>>
    ELSE LET o == Head(opcodes)
             here ==
               CASE o.op = "Call" -> <<resolve_function(m, o.idx)>>
                 [] o.op \in {"GetGlobal", "SetGlobal"} -> <<resolve_global(m, o.idx)>>
                 [] IsNested(o) -> push_code_symbols(m, o.body)
                 [] OTHER -> <<>>
         IN here \o push_code_symbols(m, Tail(opcodes))

Range(s) == {s[i] : i \in DOMAIN s}

\* expand_symbols, the match on the popped symbol: the symbols it inserts.
ExpandOne(m, next) ==
    CASE next.s = "Export" ->
           LET entry == SectionEntries(m, "Export")[next.i + 1] IN
           CASE entry.internal.kind = "Function" ->
                  <<resolve_function(m, entry.internal.idx)>>
             [] entry.internal.kind = "Global" ->
                  <<resolve_global(m, entry.internal.idx)>>
             [] OTHER -> <<>>
      [] next.s = "Import" ->
           LET entry == SectionEntries(m, "Import")[next.i + 1] IN
           IF entry.external.kind = "Function"
           THEN <<Symbol("Type", entry.external.type_ref)>> ELSE <<>>
      [] next.s = "Function" ->
           LET body == SectionEntries(m, "Code")[next.i + 1]
               signature == SectionEntries(m, "Function")[next.i + 1]
           IN push_code_symbols(m, body.code) \o <<Symbol("Type", signature)>>
      [] next.s = "Global" ->
           LET entry == SectionEntries(m, "Global")[next.i + 1] IN
           push_code_symbols(m, entry.init)
      [] OTHER -> <<>>

\* The elements of a sequence that are not in a set, in order.
RECURSIVE NotIn(_, _)
NotIn(s, stop) ==
    IF s = <<>> THEN <<>>
    ELSE (IF Head(s) \in stop THEN <<>> ELSE <<Head(s)>>) \o NotIn(Tail(s), stop)

\* Some enumeration of a finite set (HashSet iteration order).
RECURSIVE SetToSeq(_)
SetToSeq(S) ==
    IF S = {} THEN <<>>
    ELSE LET x == CHOOSE y \in S : TRUE IN <<x>> \o SetToSeq(S \ {x})

\* expand_symbols, the loop over the fringe.
RECURSIVE ExpandLoop(_, _, _, _)
ExpandLoop(m, set, stop, fringe) ==
    IF fringe = <<>> THEN set
    ELSE LET next == fringe[Len(fringe)]
             rest == SubSeq(fringe, 1, Len(fringe) - 1)
         IN IF next \in stop THEN ExpandLoop(m, set, stop, rest)
            ELSE LET new == ExpandOne(m, next)
                 IN ExpandLoop(m, set \cup Range(new), stop \cup {next},
                               rest \o NotIn(new, stop))

expand_symbols(m, set) == ExpandLoop(m, set, {}, SetToSeq(set))


(***************************************************************************)
(* optimizer.rs                                                            *)
(***************************************************************************)

\* section.entries_mut() of the first section of a kind, assigned
SetSection(m, kind, es) ==
    [m EXCEPT !.sections[SectionPos(m, kind)] = WithEntries(@, es)]

\* optimize, seed set: the exports whose name is in used_exports ...
SeedExports(m, used_exports) ==
    LET es == SectionEntries(m, "Export")
    IN {Symbol("Export", i - 1) : i \in {j \in DOMAIN es : es[j].field \in used_exports}}

\* ... the symbols of every data and element offset expression ...
RECURSIVE SegmentOffsetSymbols(_, _)
SegmentOffsetSymbols(m, segments) ==
    IF segments = <<>> THEN <<>>
    ELSE push_code_symbols(m, Head(segments).offset)
         \o SegmentOffsetSymbols(m, Tail(segments))

\* ... and every member function of every element segment.
RECURSIVE SegmentMemberSymbols(_, _)
SegmentMemberSymbols(m, segments) ==
    IF segments = <<>> THEN {}
    ELSE {resolve_function(m, Head(segments).members[i]) :
              i \in DOMAIN Head(segments).members}
         \cup SegmentMemberSymbols(m, Tail(segments))

Seeds(m, used_exports) ==
    SeedExports(m, used_exports)
    \cup Range(SegmentOffsetSymbols(m, SectionEntries(m, "Data")))
    \cup Range(SegmentOffsetSymbols(m, SectionEntries(m, "Element")))
    \cup SegmentMemberSymbols(m, SectionEntries(m, "Element"))

\* The loops "First", "Third", "Forth" and "Fivth" of optimize: walk the
\* entries with index (position in the shrinking vector) and old_index
\* (original position); an entry whose symbol is not in stay is removed and
\* its old_index recorded.
RECURSIVE EliminateLoop(_, _, _, _, _, _)
EliminateLoop(entries, kind, stay, index, old_index, eliminated) ==
    IF Len(entries) = index
    THEN [entries |-> entries, eliminated |-> eliminated]
    ELSE IF Symbol(kind, old_index) \in stay
         THEN EliminateLoop(entries, kind, stay, index + 1, old_index + 1, eliminated)
         ELSE EliminateLoop(RemoveAt(entries, index), kind, stay, index,
                            old_index + 1, Append(eliminated, old_index))

\* The loop "Second" of optimize over the import entries.  The entry at
\* index is read before the exit test, so the loop body runs at least once.
RECURSIVE ImportLoop(_, _)
ImportLoop(st, stay) ==
    IF st.index >= Len(st.entries) THEN [st EXCEPT !.panicked = TRUE]
    ELSE LET x == st.entries[st.index + 1].external
             keep == Symbol("Import", st.old_index) \in stay
             st2 ==
               CASE x.kind = "Function" ->
                      [st EXCEPT
                         !.index = IF keep THEN @ + 1 ELSE @,
                         !.entries = IF keep THEN @ ELSE RemoveAt(@, st.index),
                         !.eliminated_funcs =
                             IF keep THEN @ ELSE Append(@, st.top_funcs),
                         !.top_funcs = @ + 1]
                 [] x.kind = "Global" ->
                      [st EXCEPT
                         !.index = IF keep THEN @ + 1 ELSE @,
                         !.entries = IF keep THEN @ ELSE RemoveAt(@, st.index),
                         !.eliminated_globals =
                             IF keep THEN @ ELSE Append(@, st.top_globals),
                         !.top_globals = @ + 1]
                 [] OTHER -> [st EXCEPT !.index = @ + 1]
             st3 == [st2 EXCEPT !.old_index = @ + 1]
         IN IF st3.index = Len(st3.entries) THEN st3
            ELSE ImportLoop(st3, stay)

\* update_call_index (optimizer.rs): every Call, at any nesting depth,
\* drops by the number of leading eliminated indices below it.
RECURSIVE o_update_call_index(_, _)
o_update_call_index(opcodes, eliminated_indices) ==
    [k \in DOMAIN opcodes |->
        LET o == opcodes[k] IN
        CASE IsNested(o) ->
               [o EXCEPT !.body = o_update_call_index(o.body, eliminated_indices)]
          [] o.op = "Call" ->
               [o EXCEPT !.idx = @ - TakeWhileLess(eliminated_indices, @)]
          [] OTHER -> o]

\* update_global_index: the same for GetGlobal and SetGlobal.
RECURSIVE update_global_index(_, _)
update_global_index(opcodes, eliminated_indices) ==
    [k \in DOMAIN opcodes |->
        LET o == opcodes[k] IN
        CASE IsNested(o) ->
               [o EXCEPT !.body = update_global_index(o.body, eliminated_indices)]
          [] o.op \in {"GetGlobal", "SetGlobal"} ->
               [o EXCEPT !.idx = @ - TakeWhileLess(eliminated_indices, @)]
          [] OTHER -> o]

\* optimize, the final pass over module.sections_mut(): one section.
RewireSection(section, ef, eg, et) ==
    CASE section.kind = "Function" ->
           FunctionSection([i \in DOMAIN section.funcs |->
                section.funcs[i] - TakeWhileLess(et, section.funcs[i])])
      [] section.kind = "Import" ->
           ImportSection([i \in DOMAIN section.imports |->
                LET e == section.imports[i] IN
                IF e.external.kind = "Function"
                THEN [e EXCEPT !.external.type_ref = @ - TakeWhileLess(et, @)]
                ELSE e])
      [] section.kind = "Code" ->
           CodeSection([i \in DOMAIN section.bodies |->
                [section.bodies[i] EXCEPT !.code =
                    update_global_index(o_update_call_index(@, ef), eg)]])
      [] section.kind = "Export" ->
           ExportSection([i \in DOMAIN section.exports |->
                LET e == section.exports[i] IN
                CASE e.internal.kind = "Function" ->
                       [e EXCEPT !.internal.idx = @ - TakeWhileLess(ef, @)]
                  [] e.internal.kind = "Global" ->
                       [e EXCEPT !.internal.idx = @ - TakeWhileLess(eg, @)]
                  [] OTHER -> e])
      [] section.kind = "Global" ->
           GlobalSection([i \in DOMAIN section.globals |->
                [section.globals[i] EXCEPT !.init = update_global_index(@, eg)]])
      [] section.kind = "Data" ->
           DataSection([i \in DOMAIN section.data |->
                [section.data[i] EXCEPT !.offset = update_global_index(@, eg)]])
      [] section.kind = "Element" ->
           ElementSection([i \in DOMAIN section.elements |->
                [section.elements[i] EXCEPT
                    !.offset = update_global_index(@, eg),
                    !.members = [k \in DOMAIN @ |-> @[k] - TakeWhileLess(ef, @[k])]]])
      [] OTHER -> section

Rewire(m, ef, eg, et) ==
    IF Len(eg) > 0 \/ Len(ef) > 0 \/ Len(et) > 0
    THEN [m EXCEPT !.sections =
            [i \in DOMAIN m.sections |-> RewireSection(m.sections[i], ef, eg, et)]]
    ELSE m

OptResult(status, m) == [status |-> status, module |-> m]

\* optimize, from the fifth loop on: exports, then the rewiring.
OptimizeExports(m, stay, ef, eg, et) ==
    LET r == EliminateLoop(SectionEntries(m, "Export"), "Export", stay, 0, 0, <<>>)
        m5 == SetSection(m, "Export", r.entries)
    IN OptResult("Ok", Rewire(m5, SortedSeq(Range(ef)), SortedSeq(Range(eg)),
                              SortedSeq(Range(et))))

\* optimize, fourth loop: functions_section(..).expect, and for every
\* removed function code_section(..).expect.
OptimizeFunctions(m, stay, ef, eg, et, top_funcs) ==
    IF ~HasSection(m, "Function") THEN OptResult("panic", m)
    ELSE LET r == EliminateLoop(SectionEntries(m, "Function"), "Function", stay, 0, 0, <<>>)
             c == EliminateLoop(SectionEntries(m, "Code"), "Function", stay, 0, 0, <<>>)
         IN IF Len(r.eliminated) > 0 /\ ~HasSection(m, "Code")
            THEN OptResult("panic", m)
            ELSE LET m4a == SetSection(m, "Function", r.entries)
                     m4 == IF HasSection(m, "Code")
                           THEN SetSection(m4a, "Code", c.entries) ELSE m4a
                     ef2 == ef \o [i \in DOMAIN r.eliminated |-> top_funcs + r.eliminated[i]]
                 IN OptimizeExports(m4, stay, ef2, eg, et)

\* optimize, third loop: global_section(..).expect
OptimizeGlobals(m, stay, ef, eg, et, top_funcs, top_globals) ==
    IF ~HasSection(m, "Global") THEN OptResult("panic", m)
    ELSE LET r == EliminateLoop(SectionEntries(m, "Global"), "Global", stay, 0, 0, <<>>)
             m3 == SetSection(m, "Global", r.entries)
             eg2 == eg \o [i \in DOMAIN r.eliminated |-> top_globals + r.eliminated[i]]
         IN OptimizeFunctions(m3, stay, ef, eg2, et, top_funcs)

\* optimize, second loop: import_section(..).expect
OptimizeImports(m, stay, et) ==
    IF ~HasSection(m, "Import") THEN OptResult("panic", m)
    ELSE LET st == ImportLoop(
                    [entries |-> SectionEntries(m, "Import"), index |-> 0,
                     old_index |-> 0, top_funcs |-> 0, top_globals |-> 0,
                     eliminated_funcs |-> <<>>, eliminated_globals |-> <<>>,
                     panicked |-> FALSE], stay)
         IN IF st.panicked THEN OptResult("panic", m)
            ELSE OptimizeGlobals(SetSection(m, "Import", st.entries), stay,
                                 st.eliminated_funcs, st.eliminated_globals, et,
                                 st.top_funcs, st.top_globals)

\* optimize, first loop: type_section(..).expect
OptimizeTypes(m, stay) ==
    IF ~HasSection(m, "Type") THEN OptResult("panic", m)
    ELSE LET r == EliminateLoop(SectionEntries(m, "Type"), "Type", stay, 0, 0, <<>>)
         IN OptimizeImports(SetSection(m, "Type", r.entries), stay, r.eliminated)

\* optimize, after the export section was found: seed, expand, eliminate.
OptimizeFrom(m, used_exports) ==
    LET stay == expand_symbols(m, Seeds(m, used_exports))
    IN IF PanicSymbol \in stay THEN OptResult("panic", m)
       ELSE OptimizeTypes(m, stay)

\* The plausible slip "a module without exports has nothing to keep".
optimize_no_check(m, used_exports) ==
    IF HasSection(m, "Export") THEN OptimizeFrom(m, used_exports)
    ELSE OptimizeTypes(m, {})

\* optimize: module.export_section().ok_or(NoExportSection)? comes first.
optimize(m, used_exports) ==
    IF ~HasSection(m, "Export") THEN OptResult("NoExportSection", m)
    ELSE OptimizeFrom(m, used_exports)


\* ---- the modules optimize is applied to ----

MaxOFuncs == 2
MaxOGlobals == 2

OTypes == <<FuncType(<<>>, None), FuncType(<<"I32">>, None),
            FuncType(<<"I32">>, Some("I32"))>>

OImpA(t) == ImportEntry("env", "a", ExtFunction(t))
OImpB == ImportEntry("env", "b", ExtFunction(2))
OImpG == ImportEntry("env", "g0", ExtGlobal("F32", FALSE))
OImpM == ImportEntry("env", "memory", ExtMemory(1, None))

\* import sections: absent (0), present with entries (1..3), present and empty (4)
OImports(imp) ==
    CASE imp = 1 -> <<OImpA(0)>>
      [] imp = 2 -> <<OImpG, OImpA(1)>>
      [] imp = 3 -> <<OImpA(0), OImpM, OImpG, OImpB>>
      [] OTHER -> <<>>

OKeepLists == { {}, {"_call"}, {"g"}, {"_call", "_unused"} }

OChoices ==
    [imp : 0 .. 4, ndef : 0 .. MaxOFuncs, bk : 1 .. 7, bk2 : 1 .. 3,
     ng : 0 .. MaxOGlobals, ex : 0 .. 3, elem : BOOLEAN, data : BOOLEAN,
     start : BOOLEAN, keep : OKeepLists]

ONumImpFuncs(c) == Len(SelectKind(OImports(c.imp), "Function"))
ONumImpGlobals(c) == Len(SelectKind(OImports(c.imp), "Global"))
ONumFuncs(c) == ONumImpFuncs(c) + c.ndef
ONumGlobals(c) == ONumImpGlobals(c) + c.ng

\* every index of the module resolves, and unused choices are fixed
OChoiceOk(c) ==
    /\ (c.ndef = 0 => c.bk = 1)
    /\ (c.ndef < 2 => c.bk2 = 1)
    /\ (c.bk \in {4, 5, 7} => ONumGlobals(c) > 0)
    /\ (c.bk2 = 3 => ONumGlobals(c) > 0)
    /\ (c.ex = 1 => c.ndef > 0)
    /\ (c.ex = 2 => ONumFuncs(c) > 0 /\ ONumGlobals(c) > 0)
    /\ (c.ex = 3 => ONumGlobals(c) > 0)
    /\ (c.elem => ONumFuncs(c) > 0)
    /\ (c.start => ONumFuncs(c) > 0)

\* The body of declared function j (0-based).  Its first instruction is
\* different for every function.
OBody(c, j) ==
    LET nf == ONumFuncs(c)
        ng == ONumGlobals(c)
        rest ==
          IF j = 0
          THEN CASE c.bk = 2 -> <<Call(nf - 1)>>
                 [] c.bk = 3 -> <<IfO(<<Call(0), End>>)>>
                 [] c.bk = 4 -> <<GetGlobal(0), Drop>>
                 [] c.bk = 5 -> <<LoopO(<<I32Const(1), SetGlobal(ng - 1), End>>)>>
                 [] c.bk = 6 -> <<I32Const(0), I32Const(0), CallIndirect(2, 0), Drop>>
                 [] c.bk = 7 -> <<BlockO(<<Call(nf - 1), GetGlobal(0), Drop, End>>)>>
                 [] OTHER -> <<>>
          ELSE CASE c.bk2 = 2 -> <<Call(0)>>
                 [] c.bk2 = 3 -> <<GetGlobal(ng - 1), Drop>>
                 [] OTHER -> <<>>
    IN FuncBodyE(<<>>, <<I32Const(100 + j), Drop>> \o rest \o <<End>>)

\* Declared global j (0-based); the content type is different for each.
OGlobal(c, j) ==
    GlobalEntry(IF j = 0 THEN "I32" ELSE IF j = 1 THEN "I64" ELSE "F64", TRUE,
                IF j = 1 /\ ONumImpGlobals(c) > 0
                THEN <<GetGlobal(0), End>> ELSE <<I32Const(200 + j), End>>)

OOffset(c) ==
    IF ONumImpGlobals(c) > 0 THEN <<GetGlobal(0), End>> ELSE <<I32Const(0), End>>

OExports(c) ==
    LET nf == ONumFuncs(c)
        ng == ONumGlobals(c)
        first == ONumImpFuncs(c)
    IN CASE c.ex = 1 ->
              <<ExportEntry("_call", "Function", first)>>
              \o (IF c.imp = 3 THEN <<ExportEntry("mem", "Memory", 0)>> ELSE <<>>)
              \o <<ExportEntry("_unused", "Function", nf - 1)>>
         [] c.ex = 2 ->
              <<ExportEntry("_call", "Function", 0), ExportEntry("g", "Global", ng - 1)>>
         [] OTHER -> <<ExportEntry("g", "Global", 0)>>

OBuild(c) ==
    LET nf == ONumFuncs(c)
        opt(b, sec) == IF b THEN <<sec>> ELSE <<>>
    IN ModuleNew(
          opt(nf > 0, TypeSection(OTypes))
       \o opt(c.imp # 0, ImportSection(OImports(c.imp)))
       \o opt(c.ndef > 0, FunctionSection([j \in 1 .. c.ndef |-> (j - 1) % 2]))
       \o opt(c.elem \/ c.bk = 6, TableSection(<<Limits(1, None)>>))
       \o opt(c.ng > 0, GlobalSection([j \in 1 .. c.ng |-> OGlobal(c, j - 1)]))
       \o opt(c.ex # 0, ExportSection(OExports(c)))
       \o opt(c.start, StartSection(nf - 1))
       \o opt(c.elem, ElementSection(<<ElementSegmentE(0, OOffset(c), <<nf - 1>>)>>))
       \o opt(c.ndef > 0, CodeSection([j \in 1 .. c.ndef |-> OBody(c, j - 1)]))
       \o opt(c.data, DataSection(<<DataSegmentE(0, OOffset(c), <<1>>)>>)))

OtherIdleO ==
    /\ list = RefListNew /\ rl_last = RLIdle /\ rl_panicked = FALSE
    /\ g_in = GIdle /\ g_out = GIdle /\ g_pc = "idle" /\ g_graph = GIdle
    /\ gas_in = GIdle /\ gas_out = GIdle /\ gas_pc = "idle" /\ gas_run = GIdle
    /\ StIdle /\ PkIdle /\ XIdle

OInit ==
    /\ \E c \in OChoices :
          /\ OChoiceOk(c)
          /\ o_in = [module |-> OBuild(c), used_exports |-> c.keep]
    /\ o_out = GIdle
    /\ o_pc = "start"

\* optimize(&mut module, used_exports)
OOptimize ==
    /\ o_pc = "start"
    /\ o_out' = optimize(o_in.module, o_in.used_exports)
    /\ o_pc' = "done"
    /\ UNCHANGED o_in

InitOpt == OInit /\ OtherIdleO

NextOpt == OOptimize /\ UNCHANGED <<rlVars, gVars, gasVars, stVars, pkVars, xVars>>

SpecOpt == InitOpt /\ [][NextOpt]_vars


\* ---- claims about optimizer.rs ----

ODone == o_pc = "done"

\* The entries whose symbol (kind, 0-based position) is in a set, in order.
RECURSIVE Kept(_, _, _, _)
Kept(entries, kind, S, at) ==
    IF entries = <<>> THEN <<>>
    ELSE (IF Symbol(kind, at) \in S THEN <<Head(entries)>> ELSE <<>>)
         \o Kept(Tail(entries), kind, S, at + 1)

\* The symbols an instruction sequence references: call targets, the type
\* of an indirect call, globals read or written, at any nesting depth.
RECURSIVE Referenced(_, _)
Referenced(m, opcodes) ==
    IF opcodes = <<>> THEN {}
    ELSE LET o == Head(opcodes)
             here ==
               CASE o.op = "Call" -> {resolve_function(m, o.idx)}
                 [] o.op = "CallIndirect" -> {Symbol("Type", o.idx)}
                 [] o.op \in {"GetGlobal", "SetGlobal"} -> {resolve_global(m, o.idx)}
                 [] IsNested(o) -> Referenced(m, o.body)
                 [] OTHER -> {}
         IN here \cup Referenced(m, Tail(opcodes))

\* One expansion step of a symbol.
Expansion(m, sym) ==
    CASE sym.s = "Export" ->
           LET e == SectionEntries(m, "Export")[sym.i + 1] IN
           CASE e.internal.kind = "Function" -> {resolve_function(m, e.internal.idx)}
             [] e.internal.kind = "Global" -> {resolve_global(m, e.internal.idx)}
             [] OTHER -> {}
      [] sym.s = "Function" ->
           Referenced(m, SectionEntries(m, "Code")[sym.i + 1].code)
           \cup {Symbol("Type", SectionEntries(m, "Function")[sym.i + 1])}
      [] sym.s = "Global" ->
           Referenced(m, SectionEntries(m, "Global")[sym.i + 1].init)
      [] sym.s = "Import" ->
           LET e == SectionEntries(m, "Import")[sym.i + 1] IN
           IF e.external.kind = "Function"
           THEN {Symbol("Type", e.external.type_ref)} ELSE {}
      [] OTHER -> {}

\* The least set that contains S and is closed under Expansion.
RECURSIVE Closure(_, _)
Closure(m, S) ==
    LET n == S \cup UNION {Expansion(m, sym) : sym \in S}
    IN IF n = S THEN S ELSE Closure(m, n)

\* The seed set: kept exports, element members, symbols of offset expressions.
SeedSet(m, K) ==
    LET segs == SectionEntries(m, "Element") \o SectionEntries(m, "Data")
        elems == SectionEntries(m, "Element")
    IN SeedExports(m, K)
       \cup UNION {Referenced(m, segs[i].offset) : i \in DOMAIN segs}
       \cup UNION {{resolve_function(m, elems[i].members[k]) : k \in DOMAIN elems[i].members}
                      : i \in DOMAIN elems}

\* The imports expected to remain: memory and table imports are outside the
\* function and global index spaces and are not subject to elimination.
KeptImports(m, C) ==
    LET es == SectionEntries(m, "Import")
        at == {i \in DOMAIN es : \/ es[i].external.kind \notin {"Function", "Global"}
                                 \/ Symbol("Import", i - 1) \in C}
    IN [k \in 1 .. Cardinality(at) |-> es[SortedSeq(at)[k]]]

\* What identifies an entry whatever its position and its indices.
Fields(entries) == [i \in DOMAIN entries |-> entries[i].field]
Contents(entries) == [i \in DOMAIN entries |-> entries[i].content]
Marks(bodies) == [i \in DOMAIN bodies |-> bodies[i].code[1].val]

ClosureHolds(min, K, mout) ==
    LET C == Closure(min, SeedSet(min, K))
        kept(kind, sec) == Kept(SectionEntries(min, sec), kind, C, 0)
    IN /\ Fields(SectionEntries(mout, "Export"))
            = Fields(SelectSeq(SectionEntries(min, "Export"), LAMBDA e : e.field \in K))
       /\ SectionEntries(mout, "Type") = kept("Type", "Type")
       /\ Fields(SectionEntries(mout, "Import")) = Fields(KeptImports(min, C))
       /\ Contents(SectionEntries(mout, "Global")) = Contents(kept("Global", "Global"))
       /\ Marks(SectionEntries(mout, "Code")) = Marks(kept("Function", "Code"))
       /\ Len(SectionEntries(mout, "Function")) = Len(kept("Function", "Function"))

\* C4: after a successful optimize(M, K) the remaining exports are exactly
\* those named in K, and the remaining types, imports, globals and functions
\* are exactly those in the closure of the seed set under expansion.
C4_ReachabilityClosure ==
    (ODone /\ o_out.status = "Ok")
        => ClosureHolds(o_in.module, o_in.used_exports, o_out.module)


\* What a function, global or type index denotes in a module; <<>> when the
\* index is out of range.
FuncIdent(m, x) ==
    LET imps == SelectKind(SectionEntries(m, "Import"), "Function")
        bodies == SectionEntries(m, "Code")
    IN IF x < Len(imps) THEN <<"import", imps[x + 1].field>>
       ELSE IF x - Len(imps) < Len(bodies)
            THEN <<"function", "marked", bodies[x - Len(imps) + 1].code[1].val>>
            ELSE <<>>

GlobalIdent(m, x) ==
    LET imps == SelectKind(SectionEntries(m, "Import"), "Global")
        globals == SectionEntries(m, "Global")
    IN IF x < Len(imps) THEN <<"import", imps[x + 1].field>>
       ELSE IF x - Len(imps) < Len(globals)
            THEN <<"global", "of", globals[x - Len(imps) + 1].content>>
            ELSE <<>>

TypeIdent(m, t) ==
    LET types == SectionEntries(m, "Type")
    IN IF t < Len(types) THEN <<types[t + 1]>> ELSE <<>>

\* What the references of an instruction sequence denote, in code order.
RECURSIVE RefIdents(_, _)
RefIdents(m, opcodes) ==
    IF opcodes = <<>> THEN <<>>
    ELSE LET o == Head(opcodes)
             here ==
               CASE o.op = "Call" -> <<FuncIdent(m, o.idx)>>
                 [] o.op = "CallIndirect" -> <<TypeIdent(m, o.idx)>>
                 [] o.op \in {"GetGlobal", "SetGlobal"} -> <<GlobalIdent(m, o.idx)>>
                 [] IsNested(o) -> RefIdents(m, o.body)
                 [] OTHER -> <<>>
         IN here \o RefIdents(m, Tail(opcodes))

Live(idents) == \A i \in DOMAIN idents : idents[i] # <<>>

\* Every reference of the output module is in range and denotes what the
\* corresponding reference of the input module denoted.
IndicesConsistent(min, mout) ==
    LET same(a, b) == a = b /\ Live(a)
        ibodies == SectionEntries(min, "Code")
        obodies == SectionEntries(mout, "Code")
        ifuncs == SectionEntries(min, "Function")
        ofuncs == SectionEntries(mout, "Function")
        iglob == SectionEntries(min, "Global")
        oglob == SectionEntries(mout, "Global")
        iimp == SectionEntries(min, "Import")
        oimp == SectionEntries(mout, "Import")
        iexp == SectionEntries(min, "Export")
        oexp == SectionEntries(mout, "Export")
        ielem == SectionEntries(min, "Element")
        oelem == SectionEntries(mout, "Element")
        idata == SectionEntries(min, "Data")
        odata == SectionEntries(mout, "Data")
        internal(m, e) ==
            CASE e.internal.kind = "Function" -> <<FuncIdent(m, e.internal.idx)>>
              [] e.internal.kind = "Global" -> <<GlobalIdent(m, e.internal.idx)>>
              [] OTHER -> <<>>
    IN /\ Len(ofuncs) = Len(obodies)
       /\ \A k \in DOMAIN obodies : \A j \in DOMAIN ibodies :
             obodies[k].code[1] = ibodies[j].code[1] =>
                /\ same(RefIdents(mout, obodies[k].code), RefIdents(min, ibodies[j].code))
                /\ same(<<TypeIdent(mout, ofuncs[k])>>, <<TypeIdent(min, ifuncs[j])>>)
       /\ \A k \in DOMAIN oglob : \A j \in DOMAIN iglob :
             oglob[k].content = iglob[j].content =>
                same(RefIdents(mout, oglob[k].init), RefIdents(min, iglob[j].init))
       /\ \A k \in DOMAIN oimp : \A j \in DOMAIN iimp :
             (oimp[k].field = iimp[j].field /\ iimp[j].external.kind = "Function") =>
                same(<<TypeIdent(mout, oimp[k].external.type_ref)>>,
                     <<TypeIdent(min, iimp[j].external.type_ref)>>)
       /\ \A k \in DOMAIN oexp : \A j \in DOMAIN iexp :
             oexp[k].field = iexp[j].field =>
                same(internal(mout, oexp[k]), internal(min, iexp[j]))
       /\ Len(oelem) = Len(ielem)
       /\ \A k \in DOMAIN oelem :
             /\ same(RefIdents(mout, oelem[k].offset), RefIdents(min, ielem[k].offset))
             /\ same([i \in DOMAIN oelem[k].members |-> FuncIdent(mout, oelem[k].members[i])],
                     [i \in DOMAIN ielem[k].members |-> FuncIdent(min, ielem[k].members[i])])
       /\ Len(odata) = Len(idata)
       /\ \A k \in DOMAIN odata :
             same(RefIdents(mout, odata[k].offset), RefIdents(min, idata[k].offset))

\* C5: after a successful optimize every Call, CallIndirect, GetGlobal,
\* SetGlobal, element member, exported function or global index and function
\* or import type reference of the result is in range and denotes the entity
\* it denoted before.
C5_IndexConsistency ==
    (ODone /\ o_out.status = "Ok") => IndicesConsistent(o_in.module, o_out.module)

\* C6: optimize on a module without an export section returns
\* Err(NoExportSection) and leaves the module exactly as it was.
C6_NoExportSection ==
    (ODone /\ ~HasSection(o_in.module, "Export"))
        => (o_out.status = "NoExportSection" /\ o_out.module = o_in.module)

\* A module with types, imports, functions and code but no export section
\* was handed to optimize, which returned.
C6_Witness ==
    /\ ODone
    /\ ~HasSection(o_in.module, "Export")
    /\ Len(SectionEntries(o_in.module, "Import")) > 1
    /\ Len(SectionEntries(o_in.module, "Code")) > 1
    /\ o_in.used_exports # {}
    /\ o_out.status = "NoExportSection"

LacksSection(m) ==
    \E kind \in {"Type", "Import", "Global", "Function", "Code"} : ~HasSection(m, kind)

\* C7: optimize on a module that has an export section but lacks a type,
\* import, global, function or code section completes with Ok.
C7_AbsentSectionsOk ==
    (ODone /\ HasSection(o_in.module, "Export") /\ LacksSection(o_in.module))
        => o_out.status = "Ok"


(***************************************************************************)
(* rules.rs                                                                *)
(***************************************************************************)

\* enum Metering
Regular == [m |-> "Regular"]
Forbidden == [m |-> "Forbidden"]
Fixed(val) == [m |-> "Fixed", val |-> val]

\* InstructionType::op, on the instructions the modules here are made of
InstructionTypeOp(opcode) ==
    CASE opcode.op \in {"Block", "Loop", "If", "Else", "End", "Br", "BrIf", "Return",
                        "Call", "CallIndirect", "Drop", "Select"} -> "ControlFlow"
      [] opcode.op \in {"GetLocal", "SetLocal", "TeeLocal", "GetGlobal", "SetGlobal"} -> "Local"
      [] opcode.op = "GrowMemory" -> "GrowMemory"
      [] opcode.op = "I32Const" -> "Const"
      [] opcode.op = "F32Const" -> "FloatConst"
      [] opcode.op = "I32Mul" -> "Mul"
      [] OTHER -> "Nop"

\* rules::Set { regular, entries, grow }
RulesSet(regular, entries, grow) ==
    [regular |-> regular, entries |-> entries, grow |-> grow]

\* Set::process: Ok(cost) is Some(cost), Err(()) is None
process(rules, opcode) ==
    LET t == InstructionTypeOp(opcode) IN
    IF t \notin DOMAIN rules.entries THEN Some(rules.regular)
    ELSE CASE rules.entries[t].m = "Forbidden" -> None
           [] rules.entries[t].m = "Fixed" -> Some(rules.entries[t].val)
           [] OTHER -> Some(rules.regular)

\* Set::grow_cost
grow_cost(rules) == rules.grow

(***************************************************************************)
(* gas.rs                                                                  *)
(***************************************************************************)

\* A u32 is held as two 16-bit halves, an i32 as an integer.
u32(v) == [hi |-> v \div 2^16, lo |-> v % 2^16]

\* u32::checked_add of a cost and the u32 val
checked_add(a, val) ==
    LET lo == a.lo + (val % 2^16)
        hi == a.hi + (val \div 2^16) + (lo \div 2^16)
    IN IF hi >= 2^16 THEN None ELSE Some([hi |-> hi, lo |-> (lo % 2^16)])

\* `cost as i32`: the same 32 bits read as a signed integer
as_i32(a) == (IF a.hi >= 2^15 THEN a.hi - 2^16 ELSE a.hi) * 2^16 + a.lo

\* update_call_index (gas.rs): only top-level Call instructions exist in the
\* flat instruction list
update_call_index(instructions, inserted_index) ==
    [k \in DOMAIN instructions |->
        IF instructions[k].op = "Call" /\ instructions[k].idx >= inserted_index
        THEN Call(instructions[k].idx + 1) ELSE instructions[k]]

\* Counter::new
CounterNew == [blocks |-> <<>>, stack |-> <<>>]

\* Counter::begin with the initial cost of the new block
BeginWith(counter, cursor, cost) ==
    [blocks |-> Append(counter.blocks, [start_pos |-> cursor, cost |-> cost]),
     stack |-> Append(counter.stack, Len(counter.blocks))]

\* A block that costs nothing by itself.
begin_free(counter, cursor) == BeginWith(counter, cursor, u32(0))

\* Counter::begin
begin(counter, cursor) == BeginWith(counter, cursor, u32(1))

\* Counter::finalize
finalize(counter) ==
    IF counter.stack = <<>> THEN None
    ELSE Some([counter EXCEPT !.stack = SubSeq(@, 1, Len(@) - 1)])

\* Counter::increment
increment(counter, val) ==
    IF counter.stack = <<>> THEN None
    ELSE LET stack_top == counter.stack[Len(counter.stack)] IN
         IF stack_top >= Len(counter.blocks) THEN None
         ELSE LET sum == checked_add(counter.blocks[stack_top + 1].cost, val) IN
              IF sum = None THEN None
              ELSE Some([counter EXCEPT !.blocks[stack_top + 1].cost = sum[1]])

\* inject_counter, the match on one instruction (`?` returns the error)
Charge(counter, rules, instruction) ==
    LET instruction_cost == process(rules, instruction) IN
    IF instruction_cost = None THEN None ELSE increment(counter, instruction_cost[1])

\* An Else that is taken for an ordinary instruction without cost.
else_continues(counter, cursor) == Some(counter)

\* inject_counter, the Else arm: finalize the 'then' block, begin another
CounterElse(counter, cursor) ==
    LET f == finalize(counter) IN
    IF f = None THEN None ELSE Some(begin(f[1], cursor + 1))

\* A loop whose block starts in front of the loop instruction, where a
\* branch back to the loop does not pass.
loop_charged_outside(counter, rules, instruction, cursor) ==
    CASE instruction.op \in {"Block", "If", "Loop"} ->
           LET c == Charge(counter, rules, instruction) IN
           IF c = None THEN None
           ELSE Some(begin(c[1], IF instruction.op = "Loop" THEN cursor ELSE cursor + 1))
      [] instruction.op = "End" -> finalize(counter)
      [] instruction.op = "Else" -> CounterElse(counter, cursor)
      [] OTHER -> Charge(counter, rules, instruction)

CounterStep(counter, rules, instruction, cursor) ==
    CASE instruction.op \in {"Block", "If", "Loop"} ->
           LET c == Charge(counter, rules, instruction) IN
           IF c = None THEN None ELSE Some(begin(c[1], cursor + 1))
      [] instruction.op = "End" -> finalize(counter)
      [] instruction.op = "Else" -> CounterElse(counter, cursor)
      [] OTHER -> Charge(counter, rules, instruction)

\* inject_counter, the loop over cursor
RECURSIVE CounterLoop(_, _, _, _)
CounterLoop(instructions, rules, cursor, counter) ==
    IF cursor >= Len(instructions) THEN Some(counter)
    ELSE LET c == CounterStep(counter, rules, instructions[cursor + 1], cursor) IN
         IF c = None THEN None
         ELSE CounterLoop(instructions, rules, cursor + 1, c[1])

\* insert_metering_calls, the copy loop: blocks is what block_iter still holds
RECURSIVE CopyLoop(_, _, _, _, _)
CopyLoop(original_instrs, original_pos, blocks, gas_func, new_instrs) ==
    IF original_pos >= Len(original_instrs)
    THEN [ok |-> blocks = <<>>, code |-> new_instrs]
    ELSE LET used_block == blocks # <<>> /\ Head(blocks).start_pos = original_pos
             metering == IF used_block
                         THEN <<I32Const(as_i32(Head(blocks).cost)), Call(gas_func)>>
                         ELSE <<>>
         IN CopyLoop(original_instrs, original_pos + 1,
                     IF used_block THEN Tail(blocks) ELSE blocks, gas_func,
                     new_instrs \o metering \o <<original_instrs[original_pos + 1]>>)

insert_metering_calls(instructions, blocks, gas_func) ==
    CopyLoop(instructions, 0, blocks, gas_func, <<>>)

\* inject_counter: [ok, code] is the Result and the instructions afterwards
inject_counter(instructions, rules, gas_func) ==
    LET counter == CounterLoop(instructions, rules, 0, begin(CounterNew, 0)) IN
    IF counter = None THEN [ok |-> FALSE, code |-> instructions]
    ELSE insert_metering_calls(instructions, counter[1].blocks, gas_func)

\* The grow_memory instructions counted and left as they are.
grow_left_in_place(instructions, grow_counter_func) ==
    [code |-> instructions,
     counter |-> Cardinality({k \in DOMAIN instructions : instructions[k].op = "GrowMemory"})]

\* inject_grow_counter: [code, counter]
inject_grow_counter(instructions, grow_counter_func) ==
    [code |-> [k \in DOMAIN instructions |->
                  IF instructions[k].op = "GrowMemory"
                  THEN Call(grow_counter_func) ELSE instructions[k]],
     counter |-> Cardinality({k \in DOMAIN instructions : instructions[k].op = "GrowMemory"})]


\* Canonical position of a section kind (the order builder::build emits).
SectionRank(kind) ==
    CASE kind = "Type" -> 1 [] kind = "Import" -> 2 [] kind = "Function" -> 3
      [] kind = "Table" -> 4 [] kind = "Memory" -> 5 [] kind = "Global" -> 6
      [] kind = "Export" -> 7 [] kind = "Start" -> 8 [] kind = "Element" -> 9
      [] kind = "Code" -> 10 [] kind = "Data" -> 11 [] OTHER -> 12

\* builder::from_module(m) ... .build() with one entry pushed to a section:
\* the entry is appended, and the section is created in its canonical place
\* when the module had none.
PushEntry(m, kind, entry) ==
    IF HasSection(m, kind)
    THEN SetSection(m, kind, Append(SectionEntries(m, kind), entry))
    ELSE LET before == SelectSeq(m.sections, LAMBDA x : SectionRank(x.kind) < SectionRank(kind))
             after == SelectSeq(m.sections, LAMBDA x : SectionRank(x.kind) > SectionRank(kind))
         IN ModuleNew(before \o <<WithEntries([kind |-> kind], <<entry>>)>> \o after)

\* mbuilder.push_signature(sig): [module, import_sig]
push_signature(m, sig) ==
    [module |-> PushEntry(m, "Type", sig),
     import_sig |-> Len(SectionEntries(m, "Type"))]

\* mbuilder.push_import(entry)
push_import(m, entry) == PushEntry(m, "Import", entry)

\* add_grow_counter: push_function with signature (i32) -> i32 and the body
add_grow_counter(m, rules, gas_func) ==
    LET sig == push_signature(m, FuncType(<<"I32">>, Some("I32")))
        m1 == PushEntry(sig.module, "Function", sig.import_sig)
    IN PushEntry(m1, "Code",
           FuncBodyE(<<>>, <<GetLocal(0), GetLocal(0), I32Const(as_i32(u32(grow_cost(rules)))),
                            I32Mul, Call(gas_func), GrowMemory(0), End>>))

\* inject_gas_counter, the loop over the bodies of the code section:
\* [bodies, error, need_grow_counter]
RECURSIVE BodiesLoop(_, _, _, _, _, _)
BodiesLoop(bodies, k, rules, gas_func, total_func, need_grow_counter) ==
    IF k > Len(bodies)
    THEN [bodies |-> bodies, error |-> FALSE, need_grow_counter |-> need_grow_counter]
    ELSE LET r == inject_counter(update_call_index(bodies[k].code, gas_func), rules, gas_func)
         IN IF ~r.ok
            THEN [bodies |-> [bodies EXCEPT ![k].code = r.code], error |-> TRUE,
                  need_grow_counter |-> need_grow_counter]
            ELSE LET g == inject_grow_counter(r.code, total_func)
                     grown == grow_cost(rules) > 0
                 IN BodiesLoop([bodies EXCEPT ![k].code = IF grown THEN g.code ELSE r.code],
                               k + 1, rules, gas_func, total_func,
                               need_grow_counter \/ (grown /\ g.counter > 0))

\* The first defined function taken for an import.
shift_above(idx, gas_func) == IF idx > gas_func THEN idx + 1 ELSE idx

Shift(idx, gas_func) == IF idx >= gas_func THEN idx + 1 ELSE idx

\* inject_gas_counter, the match on one section (the code section apart)
ShiftSection(section, gas_func) ==
    CASE section.kind = "Export" ->
           ExportSection([i \in DOMAIN section.exports |->
                IF section.exports[i].internal.kind = "Function"
                THEN [section.exports[i] EXCEPT !.internal.idx = Shift(@, gas_func)]
                ELSE section.exports[i]])
      [] section.kind = "Element" ->
           ElementSection([i \in DOMAIN section.elements |->
                [section.elements[i] EXCEPT
                    !.members = [k \in DOMAIN @ |-> Shift(@[k], gas_func)]]])
      [] section.kind = "Start" -> StartSection(Shift(section.idx, gas_func))
      [] OTHER -> section

GasResult(status, m) == [status |-> status, module |-> m]

\* inject_gas_counter
inject_gas_counter(module, rules) ==
    LET sig == push_signature(module, FuncType(<<"I32">>, None))
        m == push_import(sig.module, ImportEntry("env", "gas", ExtFunction(sig.import_sig)))
        gas_func == import_count(m, "Function") - 1
        total_func == functions_space(m)
        code == BodiesLoop(SectionEntries(m, "Code"), 1, rules, gas_func, total_func, FALSE)
        m2 == [m EXCEPT !.sections =
                  [i \in DOMAIN m.sections |->
                      IF m.sections[i].kind = "Code" THEN CodeSection(code.bodies)
                      ELSE ShiftSection(m.sections[i], gas_func)]]
    IN IF code.error THEN GasResult("Err", m2)
       ELSE IF code.need_grow_counter
            THEN GasResult("Ok", add_grow_counter(m2, rules, gas_func))
            ELSE GasResult("Ok", m2)


\* ---- the modules and rule sets inject_gas_counter is applied to ----

MaxBodyLen == 3
MaxGasFuncs == 2

\* The nesting left open after a sequence of instructions, innermost last;
\* <<"bad">> when an End or Else has nothing to close.
RECURSIVE Nesting(_, _)
Nesting(instructions, open) ==
    IF instructions = <<>> THEN open
    ELSE LET i == Head(instructions)
             top == IF open = <<>> THEN "none" ELSE open[Len(open)]
             pop == SubSeq(open, 1, Len(open) - 1)
         IN CASE i.op \in {"Block", "Loop", "If"} ->
                   Nesting(Tail(instructions), Append(open, i.op))
              [] i.op = "Else" ->
                   IF top = "If" THEN Nesting(Tail(instructions), Append(pop, "Else"))
                   ELSE <<"bad">>
              [] i.op = "End" ->
                   IF top \in {"Block", "Loop", "If", "Else"}
                   THEN Nesting(Tail(instructions), pop) ELSE <<"bad">>
              [] OTHER -> Nesting(Tail(instructions), open)

GasAlphabet ==
    {BlockI, IfI, Else, End, Call(1), GrowMemory(0), F32Const(1), I32Const(5)}

RECURSIVE SeqsUpTo(_, _)
SeqsUpTo(A, n) ==
    IF n = 0 THEN {<<>>}
    ELSE LET shorter == SeqsUpTo(A, n - 1)
         IN shorter \cup {Append(q, a) : q \in {x \in shorter : Len(x) = n - 1}, a \in A}

\* every well-nested function body of at most MaxBodyLen instructions
\* before its closing End
GasBodies ==
    {Append(q, End) : q \in {x \in SeqsUpTo(GasAlphabet, MaxBodyLen) : Nesting(x, <<>>) = <<>>}}

\* the body of every further function
GasBody2 ==
    <<Call(0), LoopI, GetGlobal(0), IfI, I32Const(1), GrowMemory(0), Drop, End, End, End>>

GasRules ==
    { RulesSet(1, <<>>, 0),
      RulesSet(2, [t \in {"Const"} |-> Fixed(7)], 3),
      RulesSet(1, [t \in {"ControlFlow", "Local"} |-> IF t = "Local" THEN Regular ELSE Fixed(0)], 0),
      RulesSet(1, [t \in {"Const"} |-> Fixed(2147483647)], 0),
      RulesSet(1, [t \in {"Float", "FloatComparsion", "FloatConst", "FloatConversion"} |-> Forbidden], 0),
      RulesSet(1, [t \in {"GrowMemory"} |-> Forbidden], 5),
      RulesSet(1, [t \in {"ControlFlow"} |-> Forbidden], 0) }

GasImports(nimp) ==
    CASE nimp = 1 -> <<ImportEntry("env", "f", ExtFunction(0))>>
      [] nimp = 2 -> <<ImportEntry("env", "f", ExtFunction(0)),
                       ImportEntry("env", "g", ExtGlobal("I32", FALSE)),
                       ImportEntry("env", "h", ExtFunction(0))>>
      [] OTHER -> <<>>

GasChoices ==
    [nimp : 0 .. 2, ndef : 1 .. MaxGasFuncs, body : GasBodies, rules : GasRules,
     refs : BOOLEAN]

\* Call(0) and Call(1) resolve
GasChoiceOk(c) == Len(SelectKind(GasImports(c.nimp), "Function")) + c.ndef >= 2

GasBuild(c) ==
    LET first == Len(SelectKind(GasImports(c.nimp), "Function"))
        nf == first + c.ndef
        opt(b, sec) == IF b THEN <<sec>> ELSE <<>>
    IN ModuleNew(
          <<TypeSection(<<FuncType(<<>>, None)>>)>>
       \o opt(c.nimp > 0, ImportSection(GasImports(c.nimp)))
       \o <<FunctionSection([j \in 1 .. c.ndef |-> 0])>>
       \o opt(c.refs, TableSection(<<Limits(2, None)>>))
       \o <<MemorySection(<<Limits(1, None)>>)>>
       \o opt(c.nimp # 2, GlobalSection(<<GlobalEntry("I32", TRUE, <<I32Const(0), End>>)>>))
       \o opt(c.refs, ExportSection(<<ExportEntry("first", "Function", 0),
                                      ExportEntry("mem", "Memory", 0),
                                      ExportEntry("last", "Function", nf - 1)>>))
       \o opt(c.refs, StartSection(nf - 1))
       \o opt(c.refs, ElementSection(<<ElementSegmentE(0, <<I32Const(0), End>>, <<0, nf - 1>>)>>))
       \o <<CodeSection([j \in 1 .. c.ndef |->
                FuncBodyE(<<>>, IF j = 1 THEN c.body ELSE GasBody2)])>>)

OtherIdleGas ==
    /\ list = RefListNew /\ rl_last = RLIdle /\ rl_panicked = FALSE
    /\ g_in = GIdle /\ g_out = GIdle /\ g_pc = "idle" /\ g_graph = GIdle
    /\ o_in = GIdle /\ o_out = GIdle /\ o_pc = "idle"
    /\ StIdle /\ PkIdle /\ XIdle

GasInit ==
    /\ \E c \in GasChoices :
          /\ GasChoiceOk(c)
          /\ gas_in = [module |-> GasBuild(c), rules |-> c.rules]
    /\ gas_out = GIdle
    /\ gas_pc = "start"
    /\ gas_run = GIdle

\* inject_gas_counter(module, &rules)
GasInject ==
    /\ gas_pc = "start"
    /\ gas_out' = inject_gas_counter(gas_in.module, gas_in.rules)
    /\ gas_pc' = "done"
    /\ UNCHANGED <<gas_in, gas_run>>

InitGas == GasInit /\ OtherIdleGas

NextGas == GasInject /\ UNCHANGED <<rlVars, gVars, oVars, stVars, pkVars, xVars>>

SpecGas == InitGas /\ [][NextGas]_vars


\* ---- claims about gas.rs ----

GasDone == gas_pc = "done"

\* The bodies handed in and, at the same positions, the bodies that came out.
GasBodiesIn == SectionEntries(gas_in.module, "Code")
GasBodiesOut == SectionEntries(gas_out.module, "Code")

\* The index the gas import gets: one past the function imports handed in.
GasFunc == import_count(gas_in.module, "Function")

\* 0-based positions at which a block starts, ascending: the first
\* instruction, and the one after each Block, Loop, If and Else.
BlockStarts(B) ==
    SortedSeq({0} \cup {i \in 1 .. Len(B) - 1 : B[i].op \in {"Block", "Loop", "If", "Else"}})

\* Where the metering pair of the k-th block start sits in the result.
PairAt(B, k) == BlockStarts(B)[k] + 2 * (k - 1)

PairPositions(B) ==
    UNION {{PairAt(B, k), PairAt(B, k) + 1} : k \in DOMAIN BlockStarts(B)}

\* The result without its metering pairs.
WithoutPairs(B, Bout) ==
    LET rest == SortedSeq((0 .. Len(Bout) - 1) \ PairPositions(B))
    IN [i \in DOMAIN rest |-> Bout[rest[i] + 1]]

\* An instruction of the input as it is expected in the output: a Call at or
\* above the gas index moves up by one; with a grow cost, GrowMemory has
\* become the call of the grow counter (the function after all others).
Carried(i, rules, total_func) ==
    CASE i.op = "Call" -> Call(IF i.idx >= GasFunc THEN i.idx + 1 ELSE i.idx)
      [] i.op = "GrowMemory" /\ grow_cost(rules) > 0 -> Call(total_func)
      [] OTHER -> i

BlockStartMetered(B, Bout, rules, total_func) ==
    /\ Len(Bout) = Len(B) + 2 * Len(BlockStarts(B))
    /\ \A k \in DOMAIN BlockStarts(B) :
          /\ Bout[PairAt(B, k) + 1].op = "I32Const"
          /\ Bout[PairAt(B, k) + 2] = Call(GasFunc)
    /\ WithoutPairs(B, Bout) = [i \in DOMAIN B |-> Carried(B[i], rules, total_func)]
    /\ \A i \in DOMAIN WithoutPairs(B, Bout) : WithoutPairs(B, Bout)[i] # Call(GasFunc)

WrapAdd(a, b) ==
    LET lo == (a % 2^16) + (b % 2^16)
        hi == (a \div 2^16) + (b \div 2^16) + (lo \div 2^16)
    IN (((hi + 2^15) % 2^16) - 2^15) * 2^16 + (lo % 2^16)

\* The cost of the instructions directly contained in the block that starts
\* at 0-based position pos: scan to the End or Else that closes it, skipping
\* the inside of nested blocks.
RECURSIVE DirectCost(_, _, _, _)
DirectCost(B, pos, depth, rules) ==
    IF pos >= Len(B) THEN 0
    ELSE LET i == B[pos + 1]
             cost == process(rules, i)[1]
         IN CASE i.op \in {"Block", "Loop", "If"} ->
                   WrapAdd(IF depth = 0 THEN cost ELSE 0,
                           DirectCost(B, pos + 1, depth + 1, rules))
              [] i.op = "End" ->
                   IF depth = 0 THEN 0 ELSE DirectCost(B, pos + 1, depth - 1, rules)
              [] i.op = "Else" ->
                   IF depth = 0 THEN 0 ELSE DirectCost(B, pos + 1, depth, rules)
              [] OTHER ->
                   WrapAdd(IF depth = 0 THEN cost ELSE 0,
                           DirectCost(B, pos + 1, depth, rules))

\* C9: the constant charged at the start of each block is 1 plus the sum of
\* rules.process over the instructions directly contained in the block;
\* openers count in the containing block, End and Else cost nothing.
C9_BlockCost ==
    (GasDone /\ gas_out.status = "Ok") =>
        \A j \in DOMAIN GasBodiesIn :
            LET B == GasBodiesIn[j].code IN
            \A k \in DOMAIN BlockStarts(B) :
                GasBodiesOut[j].code[PairAt(B, k) + 1]
                    = I32Const(WrapAdd(1, DirectCost(B, BlockStarts(B)[k], 0, gas_in.rules)))

\* A body with nested blocks was instrumented, and an inner block starts with
\* an instruction the rules charge a fixed cost for.
C9_Witness ==
    /\ GasDone /\ gas_out.status = "Ok"
    /\ \E j \in DOMAIN GasBodiesIn :
          LET B == GasBodiesIn[j].code IN
          /\ Len(BlockStarts(B)) >= 3
          /\ \E k \in 2 .. Len(BlockStarts(B)) :
                /\ InstructionTypeOp(B[BlockStarts(B)[k] + 1]) \in DOMAIN gas_in.rules.entries
                /\ gas_in.rules.entries[InstructionTypeOp(B[BlockStarts(B)[k] + 1])].m = "Fixed"
                /\ GasBodiesOut[j].code[PairAt(B, k) + 1].val > 2

\* Some instruction of some body maps to Forbidden under the rule set.
HasForbidden(m, rules) ==
    \E j \in DOMAIN SectionEntries(m, "Code") :
        \E i \in DOMAIN SectionEntries(m, "Code")[j].code :
            process(rules, SectionEntries(m, "Code")[j].code[i]) = None

\* C10: when some instruction of some body is forbidden, inject_gas_counter
\* returns Err carrying the module it was given, unchanged.
C10_ForbiddenFail ==
    (GasDone /\ HasForbidden(gas_in.module, gas_in.rules))
        => (gas_out.status = "Err" /\ gas_out.module = gas_in.module)

\* What function index x denotes in module m: an import, named by its module
\* and field, or the defined function at a position of the function section.
GasDenotes(m, x) ==
    LET imps == SelectKind(SectionEntries(m, "Import"), "Function")
    IN IF x < Len(imps)
       THEN <<"import", imps[x + 1].module, imps[x + 1].field>>
       ELSE <<"defined", x - Len(imps)>>

\* Reference x of the module handed in and reference y of the result denote
\* the same function: y = x for an import, y = x + 1 for a defined function.
SameFunction(x, y) ==
    /\ y = (IF x < GasFunc THEN x ELSE x + 1)
    /\ GasDenotes(gas_out.module, y) = GasDenotes(gas_in.module, x)

GasCallsRewired ==
    \A j \in DOMAIN GasBodiesIn :
        LET B == GasBodiesIn[j].code
            W == WithoutPairs(B, GasBodiesOut[j].code)
        IN \A i \in DOMAIN B :
              B[i].op = "Call" => (W[i].op = "Call" /\ SameFunction(B[i].idx, W[i].idx))

GasExportsRewired ==
    LET ein == SectionEntries(gas_in.module, "Export")
        eout == SectionEntries(gas_out.module, "Export")
    IN /\ Len(eout) = Len(ein)
       /\ \A i \in DOMAIN ein :
             /\ eout[i].field = ein[i].field
             /\ eout[i].internal.kind = ein[i].internal.kind
             /\ IF ein[i].internal.kind = "Function"
                THEN SameFunction(ein[i].internal.idx, eout[i].internal.idx)
                ELSE eout[i] = ein[i]

GasElementsRewired ==
    LET sin == SectionEntries(gas_in.module, "Element")
        sout == SectionEntries(gas_out.module, "Element")
    IN /\ Len(sout) = Len(sin)
       /\ \A i \in DOMAIN sin :
             /\ Len(sout[i].members) = Len(sin[i].members)
             /\ \A k \in DOMAIN sin[i].members :
                   SameFunction(sin[i].members[k], sout[i].members[k])

GasStartRewired ==
    /\ HasSection(gas_out.module, "Start") = HasSection(gas_in.module, "Start")
    /\ HasSection(gas_in.module, "Start") =>
          SameFunction(gas_in.module.sections[SectionPos(gas_in.module, "Start")].idx,
                       gas_out.module.sections[SectionPos(gas_out.module, "Start")].idx)

\* C11: after a successful inject_gas_counter the gas import is the last
\* function import, and every Call target, exported function index, element
\* segment member and the start function denote the function they denoted
\* before: imports keep their index, defined functions move up by one.
C11_IndexRewire ==
    (GasDone /\ gas_out.status = "Ok") =>
        /\ import_count(gas_out.module, "Function") = GasFunc + 1
        /\ GasDenotes(gas_out.module, import_count(gas_out.module, "Function") - 1)
              = <<"import", "env", "gas">>
        /\ GasCallsRewired
        /\ GasExportsRewired
        /\ GasElementsRewired
        /\ GasStartRewired

\* A module with function imports, exports, a start function and an element
\* segment was instrumented, one body calling an import and one calling a
\* defined function.
C11_Witness ==
    /\ GasDone /\ gas_out.status = "Ok"
    /\ GasFunc > 0
    /\ HasSection(gas_in.module, "Start")
    /\ \E e \in Range(SectionEntries(gas_in.module, "Export")) :
          e.internal.kind = "Function" /\ e.internal.idx >= GasFunc
    /\ \E s \in Range(SectionEntries(gas_in.module, "Element")) :
          \E k \in DOMAIN s.members : s.members[k] < GasFunc
    /\ \E j \in DOMAIN GasBodiesIn :
          \E i \in DOMAIN GasBodiesIn[j].code :
              GasBodiesIn[j].code[i].op = "Call" /\ GasBodiesIn[j].code[i].idx >= GasFunc
    /\ \E j \in DOMAIN GasBodiesIn :
          \E i \in DOMAIN GasBodiesIn[j].code :
              GasBodiesIn[j].code[i].op = "Call" /\ GasBodiesIn[j].code[i].idx < GasFunc

\* Some body of the module handed in contains grow_memory.
GasHasGrow ==
    \E j \in DOMAIN GasBodiesIn :
        \E i \in DOMAIN GasBodiesIn[j].code : GasBodiesIn[j].code[i].op = "GrowMemory"

\* The index of the last defined function of the result.
GasLastFunc == functions_space(gas_out.module) - 1

\* The function appended to the result is the grow counter.
GrowCounterAppended ==
    LET funcs == SectionEntries(gas_out.module, "Function")
        types == SectionEntries(gas_out.module, "Type")
    IN /\ Len(funcs) = Len(SectionEntries(gas_in.module, "Function")) + 1
       /\ Len(GasBodiesOut) = Len(GasBodiesIn) + 1
       /\ types[funcs[Len(funcs)] + 1] = FuncType(<<"I32">>, Some("I32"))
       /\ GasBodiesOut[Len(GasBodiesOut)].code
             = <<GetLocal(0), GetLocal(0), I32Const(grow_cost(gas_in.rules)), I32Mul,
                 Call(GasFunc), GrowMemory(0), End>>

\* Every grow_memory of the original bodies has become instruction r.
GrowBecomes(replaced) ==
    \A j \in DOMAIN GasBodiesIn :
        LET B == GasBodiesIn[j].code
            W == WithoutPairs(B, GasBodiesOut[j].code)
        IN /\ \A i \in DOMAIN B :
                 B[i].op = "GrowMemory" => W[i] = (IF replaced THEN Call(GasLastFunc) ELSE B[i])
           /\ replaced => \A i \in DOMAIN W : W[i].op # "GrowMemory"

\* C12: with grow_cost > 0 and a grow_memory in some body, every grow_memory
\* of the original bodies is replaced by a call of the newly appended last
\* defined function, of signature (i32) -> i32 and body `get_local 0;
\* get_local 0; i32.const grow_cost; i32.mul; call gas; grow_memory 0; end`;
\* with grow_cost = 0 no function is appended and grow_memory stays.
C12_GrowCharging ==
    (GasDone /\ gas_out.status = "Ok") =>
        /\ (grow_cost(gas_in.rules) > 0 /\ GasHasGrow) =>
              (GrowCounterAppended /\ GrowBecomes(TRUE))
        /\ grow_cost(gas_in.rules) = 0 =>
              /\ Len(SectionEntries(gas_out.module, "Function"))
                    = Len(SectionEntries(gas_in.module, "Function"))
              /\ Len(GasBodiesOut) = Len(GasBodiesIn)
              /\ GrowBecomes(FALSE)

\* A module with two bodies that grow memory, one of them inside a block, was
\* instrumented under rules that charge for growing.
C12_Witness ==
    /\ GasDone /\ gas_out.status = "Ok"
    /\ grow_cost(gas_in.rules) > 0
    /\ Len(GasBodiesIn) = 2
    /\ \A j \in DOMAIN GasBodiesIn :
          \E i \in DOMAIN GasBodiesIn[j].code : GasBodiesIn[j].code[i].op = "GrowMemory"
    /\ \E i \in DOMAIN GasBodiesIn[1].code :
          i > 1 /\ GasBodiesIn[1].code[i].op = "GrowMemory"
             /\ GasBodiesIn[1].code[i - 1].op \in {"Block", "If", "Else"}

(***************************************************************************)
(* stack_height/mod.rs                                                     *)
(***************************************************************************)

I32Add == Plain("I32Add")
I32Sub == Plain("I32Sub")
I32GtU == Plain("I32GtU")
Unreachable == Plain("Unreachable")
Return == Plain("Return")

Max(a, b) == IF a >= b THEN a ELSE b

\* resolve_func_type: the signature of a function of the function index space
resolve_func_type(func_idx, m) ==
    LET func_imports == import_count(m, "Function")
        sig_idx == IF func_idx < func_imports
                   THEN SelectKind(SectionEntries(m, "Import"), "Function")[func_idx + 1]
                            .external.type_ref
                   ELSE SectionEntries(m, "Function")[func_idx - func_imports + 1]
    IN SectionEntries(m, "Type")[sig_idx + 1]

\* Number of results of a signature.
Arity(ret) == IF ret = None THEN 0 ELSE 1

\* The values an instruction pops and pushes: <<pops, pushes>>.
StackEffect(m, i) ==
    CASE i.op \in {"I32Const", "GetLocal", "GetGlobal"} -> <<0, 1>>
      [] i.op \in {"SetGlobal", "Drop", "If"} -> <<1, 0>>
      [] i.op \in {"I32Add", "I32Sub", "I32Mul", "I32GtU"} -> <<2, 1>>
      [] i.op = "GrowMemory" -> <<1, 1>>
      [] i.op = "Call" ->
           <<Len(resolve_func_type(i.idx, m).params), Arity(resolve_func_type(i.idx, m).ret)>>
      [] i.op = "CallIndirect" ->
           <<Len(SectionEntries(m, "Type")[i.idx + 1].params) + 1,
             Arity(SectionEntries(m, "Type")[i.idx + 1].ret)>>
      [] OTHER -> <<0, 0>>

\* One control frame of the abstract interpretation.
Frame(entry, results) == [entry |-> entry, unreachable |-> FALSE, results |-> results]

\* max_height::max_stack_height, the loop over the instructions of a body:
\* the running height, the running maximum and the stack of control frames.
RECURSIVE MaxHeightLoop(_, _, _, _, _)
MaxHeightLoop(m, code, frames, height, max) ==
    IF code = <<>> \/ frames = <<>> THEN max
    ELSE LET i == Head(code)
             top == frames[Len(frames)]
             rest == SubSeq(frames, 1, Len(frames) - 1)
             eff == StackEffect(m, i)
             h == IF top.unreachable THEN height ELSE height - eff[1] + eff[2]
             mx == Max(max, h)
         IN CASE i.op \in {"Block", "Loop", "If"} ->
                   MaxHeightLoop(m, Tail(code), Append(frames, Frame(h, 0)), h, mx)
              [] i.op = "Else" ->
                   MaxHeightLoop(m, Tail(code), Append(rest, Frame(top.entry, top.results)),
                                 top.entry, max)
              [] i.op = "End" ->
                   MaxHeightLoop(m, Tail(code), rest, top.entry + top.results,
                                 Max(max, top.entry + top.results))
              [] i.op \in {"Return", "Unreachable", "Br"} ->
                   MaxHeightLoop(m, Tail(code),
                                 Append(rest, [top EXCEPT !.unreachable = TRUE]), height, max)
              [] OTHER -> MaxHeightLoop(m, Tail(code), frames, h, mx)

\* max_height::max_stack_height(defined_func_idx, module)
max_stack_height(defined_func_idx, m) ==
    LET func_idx == import_count(m, "Function") + defined_func_idx
        body == SectionEntries(m, "Code")[defined_func_idx + 1]
    IN MaxHeightLoop(m, body.code, <<Frame(0, Arity(resolve_func_type(func_idx, m).ret))>>, 0, 0)

\* stack_cost: body.locals().len() is the number of local groups
stack_cost(func_idx, m) ==
    LET defined_func_idx == func_idx - import_count(m, "Function")
        body == SectionEntries(m, "Code")[defined_func_idx + 1]
        locals_count == Len(body.locals)
    IN locals_count + max_stack_height(defined_func_idx, m)

\* inject_stack_counter: funcs_stack_costs, indexed from 1 (function 0 first)
funcs_stack_costs_of(m) ==
    [k \in 1 .. functions_space(m) |->
        IF k - 1 >= import_count(m, "Function") THEN stack_cost(k - 1, m) ELSE 0]

\* The wrapped call without the decrement after it.
call_without_postamble(callee_idx, stack_height_global_idx, callee_stack_cost, stack_limit) ==
    << GetGlobal(stack_height_global_idx), I32Const(callee_stack_cost), I32Add,
       SetGlobal(stack_height_global_idx),
       GetGlobal(stack_height_global_idx), I32Const(stack_limit), I32GtU,
       IfI, Unreachable, End,
       Call(callee_idx) >>

\* instrument_call!
instrument_call(callee_idx, stack_height_global_idx, callee_stack_cost, stack_limit) ==
    << GetGlobal(stack_height_global_idx), I32Const(callee_stack_cost), I32Add,
       SetGlobal(stack_height_global_idx),
       GetGlobal(stack_height_global_idx), I32Const(stack_limit), I32GtU,
       IfI, Unreachable, End,
       Call(callee_idx),
       GetGlobal(stack_height_global_idx), I32Const(callee_stack_cost), I32Sub,
       SetGlobal(stack_height_global_idx) >>

\* instrument_function: every `call idx` is replaced by the wrapped sequence
RECURSIVE instrument_function(_, _, _, _)
instrument_function(opcodes, stack_height_global_idx, funcs_stack_costs, stack_limit) ==
    IF opcodes = <<>> THEN <<>>
    ELSE LET opcode == Head(opcodes)
             rest == instrument_function(Tail(opcodes), stack_height_global_idx,
                                         funcs_stack_costs, stack_limit)
         IN IF opcode.op = "Call"
            THEN instrument_call(opcode.idx, stack_height_global_idx,
                                 funcs_stack_costs[opcode.idx + 1], stack_limit) \o rest
            ELSE <<opcode>> \o rest

\* Module::globals_space: global imports plus global section entries
globals_space(m) == import_count(m, "Global") + Len(SectionEntries(m, "Global"))

\* The function indices the exports and the element segments refer to.
ExportedFuncs(m) ==
    {e.internal.idx : e \in {x \in Range(SectionEntries(m, "Export")) : x.internal.kind = "Function"}}

TableFuncs(m) ==
    UNION {Range(s.members) : s \in Range(SectionEntries(m, "Element"))}

\* Every exported or table function taken as a candidate, whatever its cost.
replacement_keys_all(m, funcs_stack_costs) == ExportedFuncs(m) \cup TableFuncs(m)

\* inject_stack_counter, add_candidate_thunk over exports and element
\* segments: the keys of replacement_map
replacement_keys(m, funcs_stack_costs) ==
    {f \in ExportedFuncs(m) \cup TableFuncs(m) : funcs_stack_costs[f + 1] # 0}

\* mbuilder.function().signature()...body()...build(): a function with an
\* inline signature appended to the type, function and code sections
push_function(m, signature, body) ==
    LET sig == push_signature(m, signature)
        m1 == PushEntry(sig.module, "Function", sig.import_sig)
    IN PushEntry(m1, "Code", body)

\* The body of the thunk of orig_func_idx.
thunk_body(signature, orig_func_idx, stack_height_global_idx, callee_stack_cost, stack_limit) ==
    [k \in DOMAIN signature.params |-> GetLocal(k - 1)]
       \o instrument_call(orig_func_idx, stack_height_global_idx, callee_stack_cost, stack_limit)
       \o <<End>>

\* inject_stack_counter, the loop `for (orig_func_idx, thunk) in &mut
\* replacement_map`: keys_order is the order in which the map yields its keys.
RECURSIVE ThunkLoop(_, _, _, _, _, _)
ThunkLoop(m, keys_order, k, stack_height_global_idx, funcs_stack_costs, stack_limit) ==
    IF k > Len(keys_order) THEN m
    ELSE ThunkLoop(
            push_function(m, resolve_func_type(keys_order[k], m),
                FuncBodyE(<<>>, thunk_body(resolve_func_type(keys_order[k], m), keys_order[k],
                                           stack_height_global_idx,
                                           funcs_stack_costs[keys_order[k] + 1], stack_limit))),
            keys_order, k + 1, stack_height_global_idx, funcs_stack_costs, stack_limit)

\* The index the loop assigned to the thunk of function f (thunk.idx).
thunk_idx(keys_order, next_func_idx, f) ==
    next_func_idx + (CHOOSE k \in DOMAIN keys_order : keys_order[k] = f) - 1

\* The entries left pointing to the original functions.
fixup_skipped(function_idx, keys_order, next_func_idx) == function_idx

\* fixup: a function index that has a thunk becomes the index of the thunk
fixup(function_idx, keys_order, next_func_idx) ==
    IF function_idx \in Range(keys_order)
    THEN thunk_idx(keys_order, next_func_idx, function_idx) ELSE function_idx

\* inject_stack_counter, the fixup of one section
FixupSection(section, keys_order, next_func_idx) ==
    CASE section.kind = "Export" ->
           ExportSection([i \in DOMAIN section.exports |->
                IF section.exports[i].internal.kind = "Function"
                THEN [section.exports[i] EXCEPT
                         !.internal.idx = fixup(@, keys_order, next_func_idx)]
                ELSE section.exports[i]])
      [] section.kind = "Element" ->
           ElementSection([i \in DOMAIN section.elements |->
                [section.elements[i] EXCEPT
                    !.members = [k \in DOMAIN @ |-> fixup(@[k], keys_order, next_func_idx)]]])
      [] OTHER -> section

\* The orders in which a HashMap with the keys S may be iterated.
Orders(S) ==
    {q \in [1 .. Cardinality(S) -> S] : \A a, b \in 1 .. Cardinality(S) : a # b => q[a] # q[b]}

\* inject_stack_counter(module, rules), with the iteration order of
\* replacement_map given
inject_stack_counter(module, stack_limit, keys_order) ==
    LET m1 == PushEntry(module, "Global", GlobalEntry("I32", TRUE, <<I32Const(0), End>>))
        stack_height_global_idx == globals_space(m1) - 1
        funcs_stack_costs == funcs_stack_costs_of(m1)
        m2 == SetSection(m1, "Code",
                 [j \in DOMAIN SectionEntries(m1, "Code") |->
                     [SectionEntries(m1, "Code")[j] EXCEPT
                         !.code = instrument_function(@, stack_height_global_idx,
                                                      funcs_stack_costs, stack_limit)]])
        next_func_idx == functions_space(m2)
        m3 == ThunkLoop(m2, keys_order, 1, stack_height_global_idx, funcs_stack_costs, stack_limit)
    IN [status |-> "Ok",
        module |-> [m3 EXCEPT !.sections =
                      [i \in DOMAIN m3.sections |->
                          FixupSection(m3.sections[i], keys_order, next_func_idx)]]]

\* ---- the modules inject_stack_counter is applied to ----

MaxStFuncs == 2       \* bound: defined functions of a module given to the limiter

StTypes ==
    <<FuncType(<<>>, None), FuncType(<<"I32", "I32">>, Some("I32")), FuncType(<<"I32">>, None)>>

StImports(imp) ==
    CASE imp = 1 -> <<ImportEntry("env", "foo", ExtFunction(0))>>
      [] imp = 2 -> <<ImportEntry("env", "g", ExtGlobal("I32", FALSE)),
                      ImportEntry("env", "foo", ExtFunction(0)),
                      ImportEntry("env", "boo", ExtFunction(2))>>
      [] OTHER -> <<>>

StNumImp(imp) == Len(SelectKind(StImports(imp), "Function"))

\* The type of the j-th defined function: the second one takes two
\* parameters and returns a value, the others take and return nothing.
StTypeOf(j) == IF j = 2 THEN 1 ELSE 0

\* The body of the j-th defined function of n; bk selects the first body.
StBody(imp, n, bk, j) ==
    LET first == StNumImp(imp)
        last == first + n - 1
    IN CASE j = 2 -> FuncBodyE(<<>>, <<GetLocal(0), GetLocal(1), I32Add, End>>)
         [] j > 2 -> FuncBodyE(<<Local(1, "I32")>>, <<Call(first), End>>)
         [] bk = 1 -> FuncBodyE(<<>>, <<End>>)
         [] bk = 2 -> FuncBodyE(<<>>, <<I32Const(1), Drop, End>>)
         [] bk = 3 -> FuncBodyE(<<>>, <<I32Const(3), I32Const(4), Call(first + 1), Drop, End>>)
         [] bk = 4 -> FuncBodyE(<<>>, <<Call(0), Call(first), End>>)
         [] bk = 8 -> FuncBodyE(<<Local(1, "I32")>>, <<GetLocal(0), Drop, Call(first), End>>)
         [] bk = 5 -> FuncBodyE(<<>>, <<BlockI, I32Const(0), CallIndirect(0, 0), End,
                                        I32Const(1), CallIndirect(0, 0), End>>)
         [] bk = 6 -> FuncBodyE(<<Local(2, "I32")>>, <<End>>)
         [] OTHER -> FuncBodyE(<<Local(1, "I32"), Local(1, "I64")>>,
                               <<GetLocal(0), IfI, Call(last), Else, Return, End, End>>)

\* Which functions the exports and the element segment name:
\* 0 none, 1 the first defined, 2 the last defined, 3 function 0 and both.
StRefs(imp, n, r) ==
    LET first == StNumImp(imp)
        last == first + n - 1
    IN CASE r = 1 -> <<first>>
         [] r = 2 -> <<last>>
         [] r = 3 -> <<0, first, last>>
         [] OTHER -> <<>>

StChoices ==
    [imp : 0 .. 2, n : 1 .. MaxStFuncs, bk : 1 .. 8, exp : 0 .. 3, elem : 0 .. 3,
     glob : BOOLEAN, limit : {1, 4, 1024}]

\* Call(first + 1) needs a second function; bk 7 calls the last function,
\* which must take no parameters.
StChoiceOk(c) ==
    /\ c.bk = 3 => c.n >= 2
    /\ c.bk = 7 => c.n # 2

StBuild(c) ==
    LET opt(b, sec) == IF b THEN <<sec>> ELSE <<>>
        exports == StRefs(c.imp, c.n, c.exp)
        members == StRefs(c.imp, c.n, c.elem)
    IN ModuleNew(
          <<TypeSection(StTypes)>>
       \o opt(c.imp > 0, ImportSection(StImports(c.imp)))
       \o <<FunctionSection([j \in 1 .. c.n |-> StTypeOf(j)])>>
       \o <<TableSection(<<Limits(3, None)>>)>>
       \o opt(c.glob, GlobalSection(<<GlobalEntry("I32", TRUE, <<I32Const(1), End>>)>>))
       \o opt(c.exp > 0, ExportSection(
              <<ExportEntry("table", "Table", 0)>>
              \o [k \in DOMAIN exports |->
                     ExportEntry(IF k = 1 THEN "a" ELSE IF k = 2 THEN "b" ELSE "c",
                                 "Function", exports[k])]))
       \o opt(c.elem > 0, ElementSection(<<ElementSegmentE(0, <<I32Const(0), End>>, members)>>))
       \o <<CodeSection([j \in 1 .. c.n |-> StBody(c.imp, c.n, c.bk, j)])>>)

OtherIdleSt ==
    /\ list = RefListNew /\ rl_last = RLIdle /\ rl_panicked = FALSE
    /\ g_in = GIdle /\ g_out = GIdle /\ g_pc = "idle" /\ g_graph = GIdle
    /\ o_in = GIdle /\ o_out = GIdle /\ o_pc = "idle"
    /\ gas_in = GIdle /\ gas_out = GIdle /\ gas_pc = "idle" /\ gas_run = GIdle
    /\ PkIdle /\ XIdle

StInit ==
    /\ \E c \in StChoices :
          /\ StChoiceOk(c)
          /\ st_in = [module |-> StBuild(c), stack_limit |-> c.limit]
    /\ st_out = GIdle
    /\ st_pc = "start"
    /\ st_run = GIdle

\* inject_stack_counter(module, &rules)
StInject ==
    /\ st_pc = "start"
    /\ \E keys_order \in Orders(replacement_keys(st_in.module,
                                                 funcs_stack_costs_of(st_in.module))) :
          st_out' = inject_stack_counter(st_in.module, st_in.stack_limit, keys_order)
    /\ st_pc' = "done"
    /\ UNCHANGED <<st_in, st_run>>

InitStack == StInit /\ OtherIdleSt

NextStack == StInject /\ UNCHANGED <<rlVars, gVars, oVars, gasVars, pkVars, xVars>>

SpecStack == InitStack /\ [][NextStack]_vars

StDone == st_pc = "done"

\* ---- claims about the shape of the instrumented module ----

\* The index of the stack-height global: the one after all globals handed in.
StH == globals_space(st_in.module)

\* The cost inject_stack_counter computed for function f of the input.
StCost(f) == funcs_stack_costs_of(st_in.module)[f + 1]

StPreamble(f) ==
    <<GetGlobal(StH), I32Const(StCost(f)), I32Add, SetGlobal(StH),
      GetGlobal(StH), I32Const(st_in.stack_limit), I32GtU, IfI, Unreachable, End>>

StPostamble(f) ==
    <<GetGlobal(StH), I32Const(StCost(f)), I32Sub, SetGlobal(StH)>>

\* The call at position k of code stands between its preamble and postamble.
CallWrapped(code, k) ==
    /\ k > 10 /\ k + 4 <= Len(code)
    /\ SubSeq(code, k - 10, k - 1) = StPreamble(code[k].idx)
    /\ SubSeq(code, k + 1, k + 4) = StPostamble(code[k].idx)

\* The call at position k of code has nothing of a preamble before it and
\* nothing of a postamble after it.
CallBare(code, k) ==
    /\ ~(k > 1 /\ code[k - 1] = End /\ k > 2 /\ code[k - 2] = Unreachable)
    /\ ~(k + 4 <= Len(code) /\ SubSeq(code, k + 1, k + 4) = StPostamble(code[k].idx))

StBodiesIn == SectionEntries(st_in.module, "Code")
StBodiesOut == SectionEntries(st_out.module, "Code")

\* Functions of the input that an export or an element segment names.
StEntryFuncs == ExportedFuncs(st_in.module) \cup TableFuncs(st_in.module)

\* Function t of the result is a thunk of function f of the input.
IsThunkOf(t, f) ==
    LET sig == resolve_func_type(f, st_in.module)
    IN /\ t >= functions_space(st_in.module)
       /\ t < functions_space(st_out.module)
       /\ resolve_func_type(t, st_out.module) = sig
       /\ StBodiesOut[t - import_count(st_out.module, "Function") + 1].code
             = [k \in DOMAIN sig.params |-> GetLocal(k - 1)]
                  \o StPreamble(f) \o <<Call(f)>> \o StPostamble(f) \o <<End>>

\* Every export and element entry that named f names t in the result.
EntriesPointTo(f, t) ==
    LET ein == SectionEntries(st_in.module, "Export")
        eout == SectionEntries(st_out.module, "Export")
        sin == SectionEntries(st_in.module, "Element")
        sout == SectionEntries(st_out.module, "Element")
    IN /\ Len(eout) = Len(ein) /\ Len(sout) = Len(sin)
       /\ \A i \in DOMAIN ein :
             (ein[i].internal.kind = "Function" /\ ein[i].internal.idx = f)
                => eout[i] = ExportEntry(ein[i].field, "Function", t)
       /\ \A i \in DOMAIN sin :
             /\ Len(sout[i].members) = Len(sin[i].members)
             /\ \A k \in DOMAIN sin[i].members :
                   sin[i].members[k] = f => sout[i].members[k] = t

\* C13: in every body of the result, thunks included, each call of a
\* function with a cost stands between the ten-instruction preamble and the
\* four-instruction postamble naming the same H, cost(f) and L; and every
\* function with non-zero cost that an export or an element segment names has
\* a thunk of the same signature that pushes its parameters in order and
\* calls it, to which every such export and element entry points.
C13_StaticShape ==
    StDone =>
        /\ \A j \in DOMAIN StBodiesOut :
              \A k \in DOMAIN StBodiesOut[j].code :
                  (StBodiesOut[j].code[k].op = "Call" /\ StCost(StBodiesOut[j].code[k].idx) # 0)
                     => CallWrapped(StBodiesOut[j].code, k)
        /\ \A j \in DOMAIN StBodiesIn :
              Cardinality({k \in DOMAIN StBodiesOut[j].code : StBodiesOut[j].code[k].op = "Call"})
                 = Cardinality({k \in DOMAIN StBodiesIn[j].code : StBodiesIn[j].code[k].op = "Call"})
        /\ \A f \in StEntryFuncs :
              StCost(f) # 0 =>
                 \E t \in 0 .. functions_space(st_out.module) - 1 :
                     IsThunkOf(t, f) /\ EntriesPointTo(f, t)

\* A module was instrumented in which a body calls a function with a cost
\* and a function with two parameters is both exported and in the table,
\* next to another function that needs a thunk.
C13_Witness ==
    /\ StDone
    /\ \E j \in DOMAIN StBodiesIn :
          \E k \in DOMAIN StBodiesIn[j].code :
              StBodiesIn[j].code[k].op = "Call" /\ StCost(StBodiesIn[j].code[k].idx) # 0
    /\ \E f \in ExportedFuncs(st_in.module) \cap TableFuncs(st_in.module) :
          StCost(f) # 0 /\ Len(resolve_func_type(f, st_in.module).params) = 2
    /\ Cardinality({f \in StEntryFuncs : StCost(f) # 0}) >= 2

\* No thunk exists for a function without cost: the functions appended are
\* as many as the entry functions with a cost, and every export and element
\* entry naming a zero-cost function is as it was.
NoThunkForZeroCost ==
    /\ functions_space(st_out.module) - functions_space(st_in.module)
          = Cardinality({f \in StEntryFuncs : StCost(f) # 0})
    /\ \A f \in StEntryFuncs : StCost(f) = 0 => EntriesPointTo(f, f)

\* C14 as claimed: a call of a zero-cost function (an import, or a defined
\* function with no locals and no value-stack use) is left as it is, with no
\* preamble or postamble around it, and a zero-cost exported or table
\* function gets no thunk.
C14_ZeroCostUnchanged ==
    StDone =>
        /\ \A j \in DOMAIN StBodiesOut :
              \A k \in DOMAIN StBodiesOut[j].code :
                  (StBodiesOut[j].code[k].op = "Call" /\ StCost(StBodiesOut[j].code[k].idx) = 0)
                     => CallBare(StBodiesOut[j].code, k)
        /\ NoThunkForZeroCost

\* C14 as amended: a call of a zero-cost function is wrapped like every
\* other call, in a preamble and a postamble that name the cost 0; a
\* zero-cost exported or table function gets no thunk and its export and
\* element entries stay.
C14_ZeroCostWrapped ==
    StDone =>
        /\ \A j \in DOMAIN StBodiesOut :
              \A k \in DOMAIN StBodiesOut[j].code :
                  (StBodiesOut[j].code[k].op = "Call" /\ StCost(StBodiesOut[j].code[k].idx) = 0)
                     => /\ CallWrapped(StBodiesOut[j].code, k)
                        /\ StBodiesOut[j].code[k - 9] = I32Const(0)
                        /\ StBodiesOut[j].code[k + 2] = I32Const(0)
        /\ NoThunkForZeroCost

\* A module was instrumented in which a body calls an import and a zero-cost
\* defined function, and zero-cost functions are exported and in the table.
C14_Witness ==
    /\ StDone
    /\ \E j \in DOMAIN StBodiesIn :
          LET code == StBodiesIn[j].code IN
          /\ \E k \in DOMAIN code :
                code[k].op = "Call" /\ code[k].idx < import_count(st_in.module, "Function")
          /\ \E k \in DOMAIN code :
                /\ code[k].op = "Call" /\ code[k].idx >= import_count(st_in.module, "Function")
                /\ StCost(code[k].idx) = 0
    /\ \E f \in ExportedFuncs(st_in.module) : StCost(f) = 0
    /\ \E f \in TableFuncs(st_in.module) :
          f >= import_count(st_in.module, "Function") /\ StCost(f) = 0

(***************************************************************************)
(* The execution of an instrumented module: a WebAssembly machine with a   *)
(* call stack of frames (function, position, value stack, locals) and the  *)
(* value of the stack-height global.  Each frame also remembers how it was *)
(* entered and the value of the global when the last preamble began.       *)
(***************************************************************************)

MaxDepth == 4         \* bound: frames on the call stack

\* Position of the End (or, when orElse, the Else) that closes the block
\* whose first instruction is at pos.
RECURSIVE ScanTo(_, _, _, _)
ScanTo(code, pos, depth, orElse) ==
    LET i == code[pos]
    IN CASE i.op \in {"Block", "Loop", "If"} -> ScanTo(code, pos + 1, depth + 1, orElse)
         [] i.op = "End" ->
              IF depth = 0 THEN pos ELSE ScanTo(code, pos + 1, depth - 1, orElse)
         [] i.op = "Else" ->
              IF depth = 0 /\ orElse THEN pos ELSE ScanTo(code, pos + 1, depth, orElse)
         [] OTHER -> ScanTo(code, pos + 1, depth, orElse)

\* The table of the instrumented module: slot -> function index.
RunTable ==
    LET segs == SectionEntries(st_out.module, "Element")
    IN IF segs = <<>> THEN <<>> ELSE segs[1].members

RunCode(func) ==
    StBodiesOut[func - import_count(st_out.module, "Function") + 1].code

RunIsImport(func) == func < import_count(st_out.module, "Function")

\* The cost of the function a frame runs: the thunks, appended after the
\* functions handed in, have none.
RunCost(func) == IF func < functions_space(st_in.module) THEN StCost(func) ELSE 0

\* A new frame of func called with args; declared locals start at zero.
RunFrame(func, args, via) ==
    LET body == StBodiesOut[func - import_count(st_out.module, "Function") + 1]
        declared == SumSeq([k \in DOMAIN body.locals |-> body.locals[k].count])
    IN [func |-> func, pc |-> 1, stack |-> <<>>,
        locals |-> args \o [k \in 1 .. declared |-> 0], via |-> via, pre |-> 0 - 1]

\* The call at position k of code is a wrapped call.
RunWrapped(code, k) ==
    k > 10 /\ SubSeq(code, k - 10, k - 1) = StPreamble(code[k].idx)

\* A preamble begins at position p of code.
RunPreambleAt(code, p) ==
    /\ p + 10 <= Len(code) /\ code[p + 10].op = "Call"
    /\ SubSeq(code, p, p + 9) = StPreamble(code[p + 10].idx)

Pop(stack, n) == SubSeq(stack, 1, Len(stack) - n)
Top(stack, n) == SubSeq(stack, Len(stack) - n + 1, Len(stack))

\* The machine after the call of func from its top frame, the arguments on
\* the caller's stack; an import runs in the host and returns at once.
RunCall(mach, func, via) ==
    LET d == Len(mach.frames)
        fr == mach.frames[d]
        sig == resolve_func_type(func, st_out.module)
        n == Len(sig.params)
    IN IF RunIsImport(func)
       THEN [mach EXCEPT !.frames[d].stack =
                            Pop(fr.stack, n) \o [k \in 1 .. Arity(sig.ret) |-> 0],
                         !.frames[d].pc = fr.pc + 1]
       ELSE [mach EXCEPT !.frames =
                Append([mach.frames EXCEPT ![d].stack = Pop(fr.stack, n)],
                       RunFrame(func, Top(fr.stack, n), via))]

\* The machine after the top frame returns.
RunReturn(mach) ==
    LET d == Len(mach.frames)
        fr == mach.frames[d]
        res == Top(fr.stack, Arity(resolve_func_type(fr.func, st_out.module).ret))
    IN IF d = 1
       THEN [mach EXCEPT !.status = "returned", !.frames = <<>>]
       ELSE [mach EXCEPT !.frames =
                [SubSeq(mach.frames, 1, d - 1) EXCEPT
                    ![d - 1].stack = @ \o res, ![d - 1].pc = @ + 1]]

\* One instruction of the top frame.
RunStep(mach) ==
    LET d == Len(mach.frames)
        fr == mach.frames[d]
        code == RunCode(fr.func)
        i == code[fr.pc]
        st == fr.stack
        next(stack) == [mach EXCEPT !.frames[d].stack = stack, !.frames[d].pc = fr.pc + 1]
        goto(stack, pc) == [mach EXCEPT !.frames[d].stack = stack, !.frames[d].pc = pc]
        trap == [mach EXCEPT !.status = "trapped"]
    IN CASE i.op = "I32Const" -> next(Append(st, i.val))
         [] i.op = "GetLocal" -> next(Append(st, fr.locals[i.idx + 1]))
         [] i.op = "Drop" -> next(Pop(st, 1))
         [] i.op = "GetGlobal" ->
              IF RunPreambleAt(code, fr.pc)
              THEN [next(Append(st, mach.H)) EXCEPT !.frames[d].pre = mach.H]
              ELSE next(Append(st, mach.H))
         [] i.op = "SetGlobal" -> [next(Pop(st, 1)) EXCEPT !.H = st[Len(st)]]
         [] i.op = "I32Add" -> next(Append(Pop(st, 2), st[Len(st) - 1] + st[Len(st)]))
         [] i.op = "I32Sub" -> next(Append(Pop(st, 2), st[Len(st) - 1] - st[Len(st)]))
         [] i.op = "I32GtU" ->
              next(Append(Pop(st, 2), IF st[Len(st) - 1] > st[Len(st)] THEN 1 ELSE 0))
         [] i.op \in {"Block", "Loop"} -> next(st)
         [] i.op = "If" ->
              IF st[Len(st)] # 0 THEN next(Pop(st, 1))
              ELSE goto(Pop(st, 1), ScanTo(code, fr.pc + 1, 0, TRUE) + 1)
         [] i.op = "Else" -> goto(st, ScanTo(code, fr.pc + 1, 0, FALSE) + 1)
         [] i.op = "End" -> IF fr.pc = Len(code) THEN RunReturn(mach) ELSE next(st)
         [] i.op = "Return" -> RunReturn(mach)
         [] i.op = "Unreachable" -> trap
         [] i.op = "Call" ->
              RunCall(mach, i.idx, IF RunWrapped(code, fr.pc) THEN "wrapped" ELSE "plain")
         [] i.op = "CallIndirect" ->
              LET slot == st[Len(st)]
                  popped == [mach EXCEPT !.frames[d].stack = Pop(st, 1)]
              IN IF slot + 1 \notin DOMAIN RunTable THEN trap
                 ELSE IF resolve_func_type(RunTable[slot + 1], st_out.module)
                            # SectionEntries(st_out.module, "Type")[i.idx + 1]
                      THEN trap
                      ELSE RunCall(popped, RunTable[slot + 1], "table")
         [] OTHER -> next(st)

\* The functions the host may enter: the exported and the table functions
\* of the instrumented module that are defined in it.
RunEntries ==
    {f \in ExportedFuncs(st_out.module) \cup TableFuncs(st_out.module) : ~RunIsImport(f)}

\* The host enters an exported or table function; the stack-height global
\* is 0.
StEnter ==
    /\ st_pc = "done"
    /\ \E f \in RunEntries :
          st_run' = [status |-> "running", H |-> 0,
                     frames |-> <<RunFrame(f,
                         [k \in DOMAIN resolve_func_type(f, st_out.module).params |-> 7],
                         "entry")>>]
    /\ st_pc' = "running"
    /\ UNCHANGED <<st_in, st_out>>

\* The machine executes one instruction.
StStep ==
    /\ st_pc = "running"
    /\ st_run.status = "running"
    /\ LET fr == st_run.frames[Len(st_run.frames)]
           i == RunCode(fr.func)[fr.pc]
       IN (i.op \in {"Call", "CallIndirect"}) => Len(st_run.frames) < MaxDepth
    /\ st_run' = RunStep(st_run)
    /\ UNCHANGED <<st_in, st_out, st_pc>>

NextStackRun ==
    \/ StInject /\ UNCHANGED <<rlVars, gVars, oVars, gasVars, pkVars, xVars>>
    \/ StEnter /\ UNCHANGED <<rlVars, gVars, oVars, gasVars, pkVars, xVars>>
    \/ StStep /\ UNCHANGED <<rlVars, gVars, oVars, gasVars, pkVars, xVars>>

SpecStackRun == InitStack /\ [][NextStackRun]_vars

\* ---- claims about the execution of the instrumented module ----

\* Position pc of code lies inside the preamble or the postamble of a
\* wrapped call, or at the call itself: the global has been raised for a
\* callee that is not, or no longer, running.
RunInFragment(code, pc) ==
    \E k \in DOMAIN code :
        code[k].op = "Call" /\ RunWrapped(code, k) /\ pc \in (k - 9) .. (k + 4)

\* The sum of the costs of the active frames that were entered through a
\* wrapped call (of a body or of a thunk).
RunCharged(frames) ==
    SumSeq([k \in DOMAIN frames |->
               IF frames[k].via = "wrapped" THEN RunCost(frames[k].func) ELSE 0])

\* The machine is between instructions of a body, outside every fragment.
RunOutside ==
    /\ st_pc = "running" /\ st_run.status = "running"
    /\ ~RunInFragment(RunCode(st_run.frames[Len(st_run.frames)].func),
                      st_run.frames[Len(st_run.frames)].pc)

CREATE_SYMBOL == "deploy"
CALL_SYMBOL == "call"
RET_SYMBOL == "ret"

PackErr(e) == [status |-> e]
PackOk(m) == [status |-> "Ok", module |-> m]

\* The first element of s that satisfies Test, None when there is none
\* (Iterator::find).
FindFirst(s, Test(_)) ==
    IF \E i \in DOMAIN s : Test(s[i])
    THEN Some(s[CHOOSE i \in DOMAIN s : Test(s[i]) /\ \A j \in 1 .. i - 1 : ~Test(s[j])])
    ELSE None

\* pack_instance, the block computing create_func_id: [status, id].
\* function_index - ctor_import_functions is a usize subtraction: below zero
\* it panics in a build with overflow checks and wraps around in one without,
\* where the lookup in the function section then finds nothing.
create_func_id_of(ctor_module, overflow_checks) ==
    LET ctor_import_functions == import_count(ctor_module, "Function")
        found_entry == FindFirst(SectionEntries(ctor_module, "Export"),
                                 LAMBDA entry : CREATE_SYMBOL = entry.field)
        function_index == found_entry[1].internal.idx
        funcs == SectionEntries(ctor_module, "Function")
        types == SectionEntries(ctor_module, "Type")
        type_id == funcs[function_index - ctor_import_functions + 1]
        err(e) == [status |-> e, id |-> 0]
    IN IF ~HasSection(ctor_module, "Export") THEN err("NoExportSection")
       ELSE IF found_entry = None THEN err("NoCreateSymbol")
       ELSE IF found_entry[1].internal.kind # "Function" THEN err("InvalidCreateMember")
       ELSE IF function_index < ctor_import_functions
            THEN IF overflow_checks THEN err("panic")
                 ELSE IF ~HasSection(ctor_module, "Function") THEN err("NoCodeSection")
                 ELSE err("MalformedModule")
       ELSE IF ~HasSection(ctor_module, "Function") THEN err("NoCodeSection")
       ELSE IF function_index - ctor_import_functions >= Len(funcs) THEN err("MalformedModule")
       ELSE IF ~HasSection(ctor_module, "Type") THEN err("NoTypeSection")
       ELSE IF type_id >= Len(types) THEN err("MalformedModule")
       ELSE IF types[type_id + 1].params # <<>> THEN err("InvalidCreateSignature")
       ELSE IF types[type_id + 1].ret # None THEN err("InvalidCreateSignature")
       ELSE [status |-> "Ok", id |-> function_index - ctor_import_functions]

\* pack_instance, the search for the ret import: [found, id]
RECURSIVE RetScan(_, _)
RetScan(entries, id) ==
    IF entries = <<>> THEN [found |-> FALSE, id |-> id]
    ELSE IF Head(entries).external.kind = "Function"
         THEN IF Head(entries).field = RET_SYMBOL THEN [found |-> TRUE, id |-> id]
              ELSE RetScan(Tail(entries), id + 1)
         ELSE RetScan(Tail(entries), id)

\* pack_instance, the match on one section after the ret import was added
\* (the code section apart): exports and element members move up.
PackShiftSection(section, ret_func) ==
    CASE section.kind = "Export" ->
           ExportSection([i \in DOMAIN section.exports |->
                IF section.exports[i].internal.kind = "Function"
                THEN [section.exports[i] EXCEPT
                         !.internal.idx = IF @ >= ret_func THEN @ + 1 ELSE @]
                ELSE section.exports[i]])
      [] section.kind = "Element" ->
           ElementSection([i \in DOMAIN section.elements |->
                [section.elements[i] EXCEPT
                    !.members = [k \in DOMAIN @ |->
                                    IF @[k] >= ret_func THEN @[k] + 1 ELSE @[k]]]])
      [] section.kind = "Code" ->
           CodeSection([j \in DOMAIN section.bodies |->
                [section.bodies[j] EXCEPT !.code = update_call_index(@, ret_func)]])
      [] OTHER -> section

\* pack_instance, the block `if !found`: the module with the ret import
\* pushed and the function indices moved: [module, ret_func]
add_ret_import(ctor_module) ==
    LET sig == push_signature(ctor_module, FuncType(<<"I32", "I32">>, None))
        m == push_import(sig.module, ImportEntry("env", "ret", ExtFunction(sig.import_sig)))
        ret_func == import_count(m, "Function") - 1
    IN [module |-> [m EXCEPT !.sections =
                       [i \in DOMAIN m.sections |-> PackShiftSection(m.sections[i], ret_func)]],
        ret_func |-> ret_func]

\* pack_instance, the address after the last entry of a data section:
\* <<index, offset>>
code_data_place(entries) ==
    IF entries = <<>> THEN <<0, 0>>
    ELSE LET entry == entries[Len(entries)]
         IN IF entry.offset[1].op = "I32Const"
            THEN LET value_len == Len(entry.value)
                     offst == entry.offset[1].val
                 IN <<entry.index, offst + (value_len + 4) - (value_len % 4)>>
            ELSE <<0, 0>>

\* pack_instance, the loop over the sections that pushes the raw module as a
\* data segment to every data section: [sections, code_data_address]
RECURSIVE PackDataLoop(_, _, _, _)
PackDataLoop(sections, k, raw_module, code_data_address) ==
    IF k > Len(sections)
    THEN [sections |-> sections, code_data_address |-> code_data_address]
    ELSE IF sections[k].kind = "Data"
         THEN LET place == code_data_place(sections[k].data)
                  code_data == DataSegmentE(place[1], <<I32Const(place[2]), End>>, raw_module)
              IN PackDataLoop([sections EXCEPT ![k] = DataSection(Append(@.data, code_data))],
                              k + 1, raw_module, place[2])
         ELSE PackDataLoop(sections, k + 1, raw_module, code_data_address)

\* pack_instance, the renaming of the create export
PackRename(section, last_function_index) ==
    IF section.kind = "Export"
    THEN ExportSection([i \in DOMAIN section.exports |->
            IF CREATE_SYMBOL = section.exports[i].field
            THEN ExportEntry(CALL_SYMBOL, "Function", last_function_index)
            ELSE section.exports[i]])
    ELSE section

\* pack_instance, from the search for the ret import on
PackFrom(raw_module, ctor_module, create_func_id, ctor_import_functions) ==
    LET scan == RetScan(SectionEntries(ctor_module, "Import"), 0)
        added == add_ret_import(ctor_module)
        m1 == IF scan.found THEN ctor_module ELSE added.module
        create_id == IF scan.found THEN create_func_id ELSE create_func_id + 1
        ret_function_id == IF scan.found THEN scan.id ELSE added.ret_func
        last_function_index == functions_space(m1)
        m2 == IF HasSection(m1, "Data") THEN m1
              ELSE ModuleNew(Append(m1.sections, DataSection(<<>>)))
        data == PackDataLoop(m2.sections, 1, raw_module, 0)
        m3 == push_function(ModuleNew(data.sections), FuncType(<<>>, None),
                  FuncBodyE(<<>>, <<Call(create_id + ctor_import_functions),
                                    I32Const(data.code_data_address),
                                    I32Const(Len(raw_module)),
                                    Call(ret_function_id), End>>))
    IN IF ~HasSection(ctor_module, "Import") THEN PackErr("NoImportSection")
       ELSE PackOk([m3 EXCEPT !.sections =
                       [i \in DOMAIN m3.sections |->
                           PackRename(m3.sections[i], last_function_index)]])

\* pack_instance(raw_module, ctor_module)
pack_instance(raw_module, ctor_module, overflow_checks) ==
    LET create == create_func_id_of(ctor_module, overflow_checks)
    IN IF create.status # "Ok" THEN PackErr(create.status)
       ELSE PackFrom(raw_module, ctor_module, create.id,
                     import_count(ctor_module, "Function"))


\* ---- the raw modules and constructor modules pack_instance is applied to ----

MaxRaw == 3           \* bound: bytes of the raw module

PkTypes == <<FuncType(<<"I32", "I32">>, None), FuncType(<<>>, None), FuncType(<<>>, Some("I32"))>>

PkMem == ImportEntry("env", "memory", ExtMemory(1, Some(1)))
PkExt == ImportEntry("env", "ext", ExtFunction(1))
PkRet == ImportEntry("env", "ret", ExtFunction(0))

\* 0: no import section; 1: a memory only; 2: a function and a memory;
\* 3: a function, a memory and ret; 4: ret before the other function.
PkImports(imp) ==
    CASE imp = 1 -> <<PkMem>>
      [] imp = 2 -> <<PkExt, PkMem>>
      [] imp = 3 -> <<PkExt, PkMem, PkRet>>
      [] imp = 4 -> <<PkRet, PkMem, PkExt>>
      [] OTHER -> <<>>

PkBytes(n) == [k \in 1 .. n |-> 10 + k]

\* The data section of the constructor: absent (0), empty (1), or with a last
\* segment of 1, 4, 0 or 5 bytes, or one placed by a global.
PkData(d) ==
    CASE d = 1 -> <<>>
      [] d = 2 -> <<DataSegmentE(0, <<I32Const(16), End>>, PkBytes(1))>>
      [] d = 3 -> <<DataSegmentE(0, <<I32Const(8), End>>, PkBytes(4))>>
      [] d = 4 -> <<DataSegmentE(0, <<I32Const(4), End>>, PkBytes(2)),
                    DataSegmentE(0, <<I32Const(12), End>>, PkBytes(0))>>
      [] d = 5 -> <<DataSegmentE(0, <<I32Const(0), End>>, PkBytes(5))>>
      [] OTHER -> <<DataSegmentE(0, <<GetGlobal(0), End>>, PkBytes(3))>>

\* What the constructor exports under the create symbol: the third defined
\* function ("ok"), nothing, a memory, an imported function, a function with
\* parameters, or a function that returns a value; "withcall" is "ok" next
\* to the call symbol of the runtime, which a constructor candidate that was
\* not optimized still exports.
PkDeployKinds ==
    {"ok", "none", "memory", "import", "params", "returns", "noexports", "withcall"}

PkChoices ==
    [imp : 0 .. 4, deploy : PkDeployKinds, data : 0 .. 6, refs : BOOLEAN, raw : 0 .. MaxRaw]

\* An import can be exported only when there is one.
PkChoiceOk(c) == c.deploy = "import" => c.imp >= 2

PkBuild(c) ==
    LET first == Len(SelectKind(PkImports(c.imp), "Function"))
        opt(b, sec) == IF b THEN <<sec>> ELSE <<>>
        deploy == CASE c.deploy = "ok" -> <<ExportEntry(CREATE_SYMBOL, "Function", first + 2)>>
                    [] c.deploy = "memory" -> <<ExportEntry(CREATE_SYMBOL, "Memory", 0)>>
                    [] c.deploy = "import" -> <<ExportEntry(CREATE_SYMBOL, "Function", 0)>>
                    [] c.deploy = "params" -> <<ExportEntry(CREATE_SYMBOL, "Function", first)>>
                    [] c.deploy = "returns" -> <<ExportEntry(CREATE_SYMBOL, "Function", first + 3)>>
                    [] c.deploy = "withcall" ->
                         <<ExportEntry(CALL_SYMBOL, "Function", first + 1),
                           ExportEntry(CREATE_SYMBOL, "Function", first + 2)>>
                    [] OTHER -> <<>>
    IN ModuleNew(
          <<TypeSection(PkTypes)>>
       \o opt(c.imp > 0, ImportSection(PkImports(c.imp)))
       \o <<FunctionSection(<<0, 1, 1, 2>>)>>
       \o opt(c.refs, TableSection(<<Limits(2, None)>>))
       \o opt(c.deploy # "noexports",
              ExportSection(<<ExportEntry("other", "Function", first + 1)>> \o deploy
                            \o opt(first > 0, ExportEntry("imported", "Function", 0))))
       \o opt(c.refs, StartSection(first + 1))
       \o opt(c.refs, ElementSection(<<ElementSegmentE(0, <<I32Const(0), End>>,
                                                       <<first + 2, 0>>)>>))
       \o <<CodeSection(<<FuncBodyE(<<>>, <<End>>),
                          FuncBodyE(<<>>, <<Call(0), End>>),
                          FuncBodyE(<<>>, <<Call(first + 1), BlockI, Call(first + 2), End, End>>),
                          FuncBodyE(<<>>, <<I32Const(1), End>>)>>)>>
       \o opt(c.data > 0, DataSection(PkData(c.data))))

OtherIdlePk ==
    /\ list = RefListNew /\ rl_last = RLIdle /\ rl_panicked = FALSE
    /\ g_in = GIdle /\ g_out = GIdle /\ g_pc = "idle" /\ g_graph = GIdle
    /\ o_in = GIdle /\ o_out = GIdle /\ o_pc = "idle"
    /\ gas_in = GIdle /\ gas_out = GIdle /\ gas_pc = "idle" /\ gas_run = GIdle
    /\ StIdle /\ XIdle

PkInit ==
    /\ \E c \in PkChoices :
          /\ PkChoiceOk(c)
          /\ pk_in = [raw_module |-> PkBytes(c.raw), ctor_module |-> PkBuild(c)]
    /\ pk_out = GIdle
    /\ pk_pc = "start"

\* pack_instance(raw_module, ctor_module), built with or without overflow
\* checks
PkPack ==
    /\ pk_pc = "start"
    /\ \E overflow_checks \in BOOLEAN :
          pk_out' = pack_instance(pk_in.raw_module, pk_in.ctor_module, overflow_checks)
    /\ pk_pc' = "done"
    /\ UNCHANGED pk_in

InitPack == PkInit /\ OtherIdlePk

NextPack == PkPack /\ UNCHANGED <<rlVars, gVars, oVars, gasVars, stVars, xVars>>

SpecPack == InitPack /\ [][NextPack]_vars

PkDone == pk_pc = "done"

\* ---- claims about pack.rs ----

PkIn == pk_in.ctor_module
PkOut == pk_out.module

\* What function index x denotes in module m: an import, named by its module
\* and field, or the defined function at a position of the function section.
PkDenotes(m, x) ==
    LET imps == SelectKind(SectionEntries(m, "Import"), "Function")
    IN IF x < Len(imps)
       THEN <<"import", imps[x + 1].module, imps[x + 1].field>>
       ELSE <<"defined", x - Len(imps)>>

\* The positions of the export section that carry the create symbol.
PkDeployAt == {i \in DOMAIN SectionEntries(PkIn, "Export") :
                  SectionEntries(PkIn, "Export")[i].field = CREATE_SYMBOL}

\* The preconditions of pack_instance: the create symbol is exported, as a
\* defined function that takes and returns nothing.
PkPre ==
    /\ PkDeployAt # {}
    /\ \A i \in PkDeployAt :
          LET e == SectionEntries(PkIn, "Export")[i] IN
          /\ e.internal.kind = "Function"
          /\ e.internal.idx >= import_count(PkIn, "Function")
          /\ e.internal.idx < functions_space(PkIn)
          /\ resolve_func_type(e.internal.idx, PkIn) = FuncType(<<>>, None)

\* The function the create symbol names in the constructor handed in.
PkDeployFunc ==
    SectionEntries(PkIn, "Export")[CHOOSE i \in PkDeployAt : TRUE].internal.idx

\* The last defined function of the result and its body.
PkWrapper == functions_space(PkOut) - 1
PkWrapperBody == SectionEntries(PkOut, "Code")[Len(SectionEntries(PkOut, "Code"))].code

\* The last data segment of the result.
PkLastData == SectionEntries(PkOut, "Data")[Len(SectionEntries(PkOut, "Data"))]

\* The result is the packed module: its last data segment holds the raw
\* module, the create export is the call export of the appended wrapper, and
\* the wrapper calls the create function and then ret with the place and
\* the length of the raw module.
PackedShape ==
    /\ pk_out.status = "Ok"
    /\ SectionEntries(PkOut, "Data") # <<>>
    /\ PkLastData.value = pk_in.raw_module
    /\ Len(SectionEntries(PkOut, "Function")) = Len(SectionEntries(PkIn, "Function")) + 1
    /\ \A i \in PkDeployAt :
          SectionEntries(PkOut, "Export")[i] = ExportEntry(CALL_SYMBOL, "Function", PkWrapper)
    /\ resolve_func_type(PkWrapper, PkOut) = FuncType(<<>>, None)
    /\ Len(PkWrapperBody) = 5
    /\ PkWrapperBody[1].op = "Call"
    /\ PkDenotes(PkOut, PkWrapperBody[1].idx) = PkDenotes(PkIn, PkDeployFunc)
    /\ PkWrapperBody[2] = I32Const(PkLastData.offset[1].val)
    /\ PkLastData.offset = <<PkWrapperBody[2], End>>
    /\ PkWrapperBody[3] = I32Const(Len(pk_in.raw_module))
    /\ PkWrapperBody[4].op = "Call"
    /\ PkWrapperBody[4].idx < import_count(PkOut, "Function")
    /\ PkDenotes(PkOut, PkWrapperBody[4].idx) = <<"import", "env", RET_SYMBOL>>
    /\ PkWrapperBody[5] = End

\* C16: for any raw bytes B and any constructor satisfying the
\* preconditions, pack_instance returns a module whose last data segment
\* holds B and whose former deploy export is named call and points to a newly
\* appended function () -> () with body `call d; i32.const o; i32.const |B|;
\* call r; end`, d the deploy function, r the ret import, o the offset of
\* that data segment.
C16_PackerOutput == (PkDone /\ PkPre) => PackedShape

\* The same, for the constructors that have an import section.
PackedShapeWithImports ==
    (PkDone /\ PkPre /\ HasSection(PkIn, "Import")) => PackedShape

\* The smallest multiple of 4 that is not below n.
round_up_4(n) == ((n + 3) \div 4) * 4

\* The last data segment of the constructor handed in, when it has one.
PkPriorData == SectionEntries(PkIn, "Data")
PkPriorLast == PkPriorData[Len(PkPriorData)]

\* C17: the offset of the data segment holding the raw module is the offset
\* of the constructor's last data segment plus its length rounded up to a
\* multiple of 4 (a last segment of length 4 or 0 adds 4 or 0), and 0 when
\* the constructor had no data segment.
C17_DataOffset ==
    (PkDone /\ pk_out.status = "Ok") =>
        IF PkPriorData = <<>>
        THEN PkLastData.offset = <<I32Const(0), End>>
        ELSE PkPriorLast.offset[1].op = "I32Const" =>
                PkLastData.offset =
                    <<I32Const(PkPriorLast.offset[1].val + round_up_4(Len(PkPriorLast.value))), End>>

\* The same, for last segments whose length is not a multiple of 4.
DataOffsetUnaligned ==
    (PkDone /\ pk_out.status = "Ok" /\ PkPriorData # <<>>
        /\ PkPriorLast.offset[1].op = "I32Const" /\ Len(PkPriorLast.value) % 4 # 0) =>
        PkLastData.offset =
            <<I32Const(PkPriorLast.offset[1].val + round_up_4(Len(PkPriorLast.value))), End>>

\* The export entry pack_instance finds for the create symbol: the first one.
PkFoundEntry ==
    SectionEntries(PkIn, "Export")[CHOOSE i \in PkDeployAt : \A j \in PkDeployAt : i <= j]

\* The error values of pack.rs.
PackErrors ==
    {"MalformedModule", "NoTypeSection", "NoExportSection", "NoCodeSection",
     "InvalidCreateSignature", "NoCreateSymbol", "InvalidCreateMember", "NoImportSection"}

\* The create symbol names a function, and the function is an import.
PkDeployImported ==
    /\ HasSection(PkIn, "Export") /\ PkDeployAt # {}
    /\ PkFoundEntry.internal.kind = "Function"
    /\ PkFoundEntry.internal.idx < import_count(PkIn, "Function")

\* The create symbol names a defined function that takes a parameter or
\* returns a value.
PkDeployBadSignature ==
    /\ HasSection(PkIn, "Export") /\ PkDeployAt # {}
    /\ PkFoundEntry.internal.kind = "Function"
    /\ PkFoundEntry.internal.idx >= import_count(PkIn, "Function")
    /\ PkFoundEntry.internal.idx < functions_space(PkIn)
    /\ resolve_func_type(PkFoundEntry.internal.idx, PkIn) # FuncType(<<>>, None)

\* C18: pack_instance returns an Err value, and never panics or underflows,
\* for every constructor without export section (NoExportSection), without
\* an export named deploy (NoCreateSymbol), whose deploy export is not a
\* function (InvalidCreateMember), whose deploy export names an imported
\* function, or whose deploy function has a parameter or a return value
\* (InvalidCreateSignature).
C18_PreconditionErrors ==
    PkDone =>
        /\ ~HasSection(PkIn, "Export") => pk_out.status = "NoExportSection"
        /\ (HasSection(PkIn, "Export") /\ PkDeployAt = {}) => pk_out.status = "NoCreateSymbol"
        /\ (HasSection(PkIn, "Export") /\ PkDeployAt # {}
                /\ PkFoundEntry.internal.kind # "Function") =>
              pk_out.status = "InvalidCreateMember"
        /\ PkDeployImported => pk_out.status \in PackErrors
        /\ PkDeployBadSignature => pk_out.status = "InvalidCreateSignature"

\* The same without the case of an imported deploy function.
PreconditionErrorsDefined ==
    PkDone =>
        /\ ~HasSection(PkIn, "Export") => pk_out.status = "NoExportSection"
        /\ (HasSection(PkIn, "Export") /\ PkDeployAt = {}) => pk_out.status = "NoCreateSymbol"
        /\ (HasSection(PkIn, "Export") /\ PkDeployAt # {}
                /\ PkFoundEntry.internal.kind # "Function") =>
              pk_out.status = "InvalidCreateMember"
        /\ PkDeployBadSignature => pk_out.status = "InvalidCreateSignature"

\* The constructor imports a function whose field is the ret symbol.
PkHasRet ==
    \E i \in DOMAIN SectionEntries(PkIn, "Import") :
        /\ SectionEntries(PkIn, "Import")[i].external.kind = "Function"
        /\ SectionEntries(PkIn, "Import")[i].field = RET_SYMBOL

\* The function imports of a module.
PkFuncImports(m) == SelectKind(SectionEntries(m, "Import"), "Function")

\* The import (env, ret, func([i32, i32]) -> []) is the last function import
\* of the result and every earlier import is as it was.
RetSynthesised ==
    LET imps == PkFuncImports(PkOut)
        last == imps[Len(imps)]
    IN /\ Len(imps) = Len(PkFuncImports(PkIn)) + 1
       /\ last.module = "env" /\ last.field = RET_SYMBOL
       /\ SectionEntries(PkOut, "Type")[last.external.type_ref + 1] = FuncType(<<"I32", "I32">>, None)
       /\ \A i \in DOMAIN SectionEntries(PkIn, "Import") :
             SectionEntries(PkIn, "Import")[i].module = SectionEntries(PkOut, "Import")[i].module
             /\ SectionEntries(PkIn, "Import")[i].field = SectionEntries(PkOut, "Import")[i].field

\* Index y of the result denotes what index x of the constructor denoted.
PkSame(x, y) == PkDenotes(PkOut, y) = PkDenotes(PkIn, x)

\* The start function of a module that has a start section.
PkStart(m) == m.sections[SectionPos(m, "Start")].idx

PkCallsKept ==
    \A f \in DOMAIN SectionEntries(PkIn, "Code") :
        LET a == SectionEntries(PkIn, "Code")[f].code
            b == SectionEntries(PkOut, "Code")[f].code
        IN /\ Len(a) = Len(b)
           /\ \A k \in DOMAIN a :
                 IF a[k].op = "Call"
                 THEN b[k].op = "Call" /\ PkSame(a[k].idx, b[k].idx)
                 ELSE b[k] = a[k]

PkExportsKept ==
    \A i \in DOMAIN SectionEntries(PkIn, "Export") \ PkDeployAt :
        LET a == SectionEntries(PkIn, "Export")[i]
            b == SectionEntries(PkOut, "Export")[i]
        IN /\ a.field = b.field /\ a.internal.kind = b.internal.kind
           /\ IF a.internal.kind = "Function"
              THEN PkSame(a.internal.idx, b.internal.idx)
              ELSE a = b

PkElementsKept ==
    \A i \in DOMAIN SectionEntries(PkIn, "Element") :
        LET a == SectionEntries(PkIn, "Element")[i].members
            b == SectionEntries(PkOut, "Element")[i].members
        IN Len(a) = Len(b) /\ \A k \in DOMAIN a : PkSame(a[k], b[k])

PkStartKept ==
    HasSection(PkIn, "Start") =>
        /\ HasSection(PkOut, "Start")
        /\ PkSame(PkStart(PkIn), PkStart(PkOut))

\* The remembered deploy index: the first call of the appended wrapper.
PkDeployKept == PkWrapperBody[1].op = "Call" /\ PkSame(PkDeployFunc, PkWrapperBody[1].idx)

\* No function index of the constructor changed.
PkNothingMoved ==
    /\ SectionEntries(PkOut, "Import") = SectionEntries(PkIn, "Import")
    /\ \A f \in DOMAIN SectionEntries(PkIn, "Code") :
          SectionEntries(PkOut, "Code")[f] = SectionEntries(PkIn, "Code")[f]
    /\ \A i \in DOMAIN SectionEntries(PkIn, "Export") \ PkDeployAt :
          SectionEntries(PkOut, "Export")[i] = SectionEntries(PkIn, "Export")[i]
    /\ SectionEntries(PkOut, "Element") = SectionEntries(PkIn, "Element")
    /\ HasSection(PkIn, "Start") => PkStart(PkOut) = PkStart(PkIn)
    /\ PkWrapperBody[1] = Call(PkDeployFunc)

\* C19: for a constructor without a ret function import, one without import
\* section included, pack_instance synthesises the import (env, ret,
\* func([i32, i32]) -> []), and every function reference (calls, exports,
\* element members, start function) and the remembered deploy index denote
\* the same functions as before; when a ret function import exists no import
\* is added and no index changes.
C19_RetImport ==
    (PkDone /\ PkPre) =>
        /\ pk_out.status = "Ok"
        /\ IF PkHasRet
           THEN PkNothingMoved
           ELSE /\ RetSynthesised
                /\ PkCallsKept /\ PkExportsKept /\ PkElementsKept /\ PkStartKept
                /\ PkDeployKept

\* The same for constructors that have an import section, the start function
\* left aside.
RetImportWithoutStart ==
    (PkDone /\ PkPre /\ HasSection(PkIn, "Import")) =>
        /\ pk_out.status = "Ok"
        /\ IF PkHasRet
           THEN PkNothingMoved
           ELSE /\ RetSynthesised
                /\ PkCallsKept /\ PkExportsKept /\ PkElementsKept
                /\ PkDeployKept

\* The start function alone, for constructors that have an import section.
RetImportStart ==
    (PkDone /\ PkPre /\ HasSection(PkIn, "Import") /\ ~PkHasRet) => PkStartKept

(***************************************************************************)
(* ext.rs: externalize                                                     *)
(* ext.rs works on elements::Opcode.  Its update_call_index walks          *)
(* opcodes.elements_mut() and nothing below it, so a body is taken here in *)
(* both forms the crate has had: with Block, If and Loop carrying their    *)
(* nested opcodes (as in optimizer.rs), and flat.                          *)
(***************************************************************************)

\* type Insertion = (usize, u32, u32, String)
Insertion(pos, func_idx, type_ref, field) ==
    [pos |-> pos, func_idx |-> func_idx, type_ref |-> type_ref, field |-> field]

\* inserts.iter().position(|x| x.1 == call_index)
InsertPosition(inserts, call_index) ==
    IF \E i \in DOMAIN inserts : inserts[i].func_idx = call_index
    THEN Some((CHOOSE i \in DOMAIN inserts :
                  /\ inserts[i].func_idx = call_index
                  /\ \A j \in 1 .. i - 1 : inserts[j].func_idx # call_index) - 1)
    ELSE None

\* update_call_index (ext.rs)
ext_update_call_index(opcodes, original_imports, inserts) ==
    [k \in DOMAIN opcodes |->
        LET opcode == opcodes[k] IN
        IF opcode.op = "Call"
        THEN LET found == InsertPosition(inserts, opcode.idx) IN
             IF found # None THEN Call(original_imports + found[1])
             ELSE IF opcode.idx > original_imports
                  THEN Call(opcode.idx + Len(inserts))
                  ELSE opcode
        ELSE opcode]

\* externalize, the closure of filter_map for one name: None when it panics,
\* Some(<<>>) when the export is not a function, Some(<<insertion>>) else.
ReplaceOf(module, f, import_funcs_total) ==
    LET exports == SectionEntries(module, "Export")
        hit == {i \in DOMAIN exports : exports[i].field = f}
        at == CHOOSE i \in hit : \A j \in hit : i <= j
        funcs == SectionEntries(module, "Function")
    IN IF ~HasSection(module, "Export") \/ hit = {} THEN None
       ELSE IF exports[at].internal.kind # "Function" THEN Some(<<>>)
       ELSE LET func_idx == exports[at].internal.idx IN
            IF \/ ~HasSection(module, "Function")
               \/ func_idx < import_funcs_total
               \/ func_idx - import_funcs_total >= Len(funcs)
            THEN None
            ELSE Some(<<Insertion(at - 1, func_idx,
                                  funcs[func_idx - import_funcs_total + 1], f)>>)

\* replaced_funcs.into_iter().filter_map(..).collect()
RECURSIVE Replaces(_, _, _)
Replaces(module, replaced_funcs, import_funcs_total) ==
    IF replaced_funcs = <<>> THEN <<>>
    ELSE ReplaceOf(module, Head(replaced_funcs), import_funcs_total)[1]
         \o Replaces(module, Tail(replaced_funcs), import_funcs_total)

\* replaces.sort_by_key(|e| e.0): a stable sort
RECURSIVE SortByKey(_)
SortByKey(replaces) ==
    IF replaces = <<>> THEN <<>>
    ELSE LET least == CHOOSE i \in DOMAIN replaces :
                         /\ \A j \in DOMAIN replaces : replaces[i].pos <= replaces[j].pos
                         /\ \A j \in 1 .. i - 1 : replaces[j].pos # replaces[i].pos
         IN <<replaces[least]>>
            \o SortByKey([k \in 1 .. Len(replaces) - 1 |->
                             IF k < least THEN replaces[k] ELSE replaces[k + 1]])

\* externalize, the loop over module.sections_mut()
ExternalizeSection(section, import_funcs_total, replaces) ==
    LET bump(func_index) ==
            IF func_index >= import_funcs_total THEN func_index + Len(replaces) ELSE func_index
    IN CASE section.kind = "Code" ->
              CodeSection([f \in DOMAIN section.bodies |->
                  FuncBodyE(section.bodies[f].locals,
                            ext_update_call_index(section.bodies[f].code,
                                                  import_funcs_total, replaces))])
         [] section.kind = "Export" ->
              ExportSection([i \in DOMAIN section.exports |->
                  LET export == section.exports[i] IN
                  IF export.internal.kind = "Function"
                  THEN ExportEntry(export.field, "Function", bump(export.internal.idx))
                  ELSE export])
         [] section.kind = "Element" ->
              ElementSection([i \in DOMAIN section.elements |->
                  LET segment == section.elements[i] IN
                  ElementSegmentE(segment.index, segment.offset,
                                  [k \in DOMAIN segment.members |-> bump(segment.members[k])])])
         [] OTHER -> section

\* An expect() of externalize fails, or the index into the function section
\* is out of bounds.
ExternalizePanics(module, replaced_funcs) ==
    \/ ~HasSection(module, "Import")
    \/ \E k \in DOMAIN replaced_funcs :
          ReplaceOf(module, replaced_funcs[k], import_count(module, "Function")) = None

\* externalize(module, replaced_funcs)
externalize(module, replaced_funcs) ==
    IF ExternalizePanics(module, replaced_funcs) THEN [status |-> "panic"]
    ELSE LET import_funcs_total == import_count(module, "Function")
             replaces == SortByKey(Replaces(module, replaced_funcs, import_funcs_total))
             pushed == [k \in DOMAIN replaces |->
                           ImportEntry("env", replaces[k].field, ExtFunction(replaces[k].type_ref))]
             built == [i \in DOMAIN module.sections |->
                          IF module.sections[i].kind = "Import"
                          THEN ImportSection(module.sections[i].imports \o pushed)
                          ELSE module.sections[i]]
         IN [status |-> "Ok",
             module |-> ModuleNew([i \in DOMAIN built |->
                            ExternalizeSection(built[i], import_funcs_total, replaces)])]

\* ---- inputs of externalize ----

MaxNames == 2         \* bound: length of replaced_funcs

XTypes == <<FuncType(<<>>, None), FuncType(<<"I32">>, None)>>

\* 0: no import section; 1: a memory only; 2: a function and a memory;
\* 3: two functions.
XImports(imp) ==
    CASE imp = 1 -> <<PkMem>>
      [] imp = 2 -> <<ImportEntry("env", "ext", ExtFunction(1)), PkMem>>
      [] imp = 3 -> <<ImportEntry("env", "ext", ExtFunction(1)),
                      ImportEntry("env", "log", ExtFunction(0))>>
      [] OTHER -> <<>>

XNames == {"a", "b", "c", "mem", "imp", "zz"}

\* The bodies of the three defined functions; first is the index of the
\* first of them.  1, 2: calls at the top of the body; 3: calls inside flat
\* blocks; 4: calls inside nested blocks.
XBodies(bk, first) ==
    CASE bk = 1 -> <<<<End>>,
                     <<Call(first), I32Const(1), Call(first + 1), End>>,
                     <<Call(first + 2), Call(0), End>>>>
      [] bk = 2 -> <<<<Call(first + 1), End>>,
                     <<End>>,
                     <<Call(first + 2), Call(first + 1), End>>>>
      [] bk = 3 -> <<<<BlockI, Call(first + 1), End, End>>,
                     <<I32Const(1), Call(first + 1), End>>,
                     <<LoopI, BlockI, Call(first + 2), End, Call(0), End, End>>>>
      [] OTHER  -> <<<<BlockO(<<Call(first + 2), End>>), End>>,
                     <<I32Const(1), Call(first + 1), End>>,
                     <<LoopO(<<BlockO(<<Call(first + 1), End>>), End>>), Call(first + 2), End>>>>

XChoices ==
    [imp : 0 .. 3, bk : 1 .. 4, elem : BOOLEAN, exports : BOOLEAN,
     names : UNION {[1 .. n -> XNames] : n \in 0 .. MaxNames}]

XBuild(c) ==
    LET first == Len(SelectKind(XImports(c.imp), "Function"))
        opt(b, sec) == IF b THEN <<sec>> ELSE <<>>
    IN ModuleNew(
          <<TypeSection(XTypes)>>
       \o opt(c.imp > 0, ImportSection(XImports(c.imp)))
       \o <<FunctionSection(<<0, 1, 0>>)>>
       \o opt(c.elem, TableSection(<<Limits(3, None)>>))
       \o opt(c.exports,
              ExportSection(<<ExportEntry("c", "Function", first + 2),
                              ExportEntry("mem", "Memory", 0),
                              ExportEntry("a", "Function", first),
                              ExportEntry("b", "Function", first + 1),
                              ExportEntry("imp", "Function", 0)>>))
       \o opt(c.elem, ElementSection(<<ElementSegmentE(0, <<I32Const(0), End>>,
                                                       <<first + 1, 0, first>>)>>))
       \o <<CodeSection([f \in 1 .. 3 |-> FuncBodyE(<<>>, XBodies(c.bk, first)[f])])>>)

OtherIdleX ==
    /\ list = RefListNew /\ rl_last = RLIdle /\ rl_panicked = FALSE
    /\ g_in = GIdle /\ g_out = GIdle /\ g_pc = "idle" /\ g_graph = GIdle
    /\ o_in = GIdle /\ o_out = GIdle /\ o_pc = "idle"
    /\ gas_in = GIdle /\ gas_out = GIdle /\ gas_pc = "idle" /\ gas_run = GIdle
    /\ StIdle /\ PkIdle

XInit ==
    /\ \E c \in XChoices : x_in = [module |-> XBuild(c), replaced_funcs |-> c.names]
    /\ x_out = GIdle
    /\ x_pc = "start"

\* externalize(module, replaced_funcs)
XExternalize ==
    /\ x_pc = "start"
    /\ x_out' = externalize(x_in.module, x_in.replaced_funcs)
    /\ x_pc' = "done"
    /\ UNCHANGED x_in

InitExt == XInit /\ OtherIdleX

NextExt == XExternalize /\ UNCHANGED <<rlVars, gVars, oVars, gasVars, stVars, pkVars>>

SpecExt == InitExt /\ [][NextExt]_vars

XDone == x_pc = "done"

\* ---- claims about externalize ----

XIn == x_in.module
XOut == x_out.module

\* The number of function imports before externalize.
XTotal == import_count(XIn, "Function")

\* The names of replaced_funcs that the module exports as a function.
XNamed ==
    {x_in.replaced_funcs[k] : k \in DOMAIN x_in.replaced_funcs} \cap
    {e.field : e \in {SectionEntries(XIn, "Export")[i] :
                         i \in {j \in DOMAIN SectionEntries(XIn, "Export") :
                                   SectionEntries(XIn, "Export")[j].internal.kind = "Function"}}}

\* The function an exported name stands for in the module handed in.
XFuncOf(name) ==
    LET exports == SectionEntries(XIn, "Export")
    IN exports[CHOOSE i \in DOMAIN exports :
                  /\ exports[i].field = name
                  /\ \A j \in 1 .. i - 1 : exports[j].field # name].internal.idx

\* The functions that are externalized.
XReplaced == {XFuncOf(name) : name \in XNamed}

\* The function imports that externalize appended.
XNewImports ==
    LET imps == PkFuncImports(XOut)
    IN {i \in DOMAIN imps : i > XTotal}

\* What index x denoted before externalize.
XDenotesIn(x) ==
    IF x < XTotal THEN <<"import", x>> ELSE <<"defined", x - XTotal>>

\* What index y denotes afterwards: an import that was there, the defined
\* function at a position of the function section, or an appended import.
XDenotesOut(y) ==
    IF y < XTotal THEN <<"import", y>>
    ELSE IF y < import_count(XOut, "Function") THEN <<"new", PkFuncImports(XOut)[y + 1].field>>
    ELSE <<"defined", y - import_count(XOut, "Function")>>

\* The targets of the calls of a body, at any nesting depth, in program order.
RECURSIVE CallTargets(_)
CallTargets(opcodes) ==
    IF opcodes = <<>> THEN <<>>
    ELSE (CASE Head(opcodes).op = "Call" -> <<Head(opcodes).idx>>
            [] IsNested(Head(opcodes)) -> CallTargets(Head(opcodes).body)
            [] OTHER -> <<>>)
         \o CallTargets(Tail(opcodes))

\* For each exported function named an import (env, name) of its type is
\* appended, and nothing else is.
XImportsAppended ==
    /\ \A name \in XNamed :
          \E i \in XNewImports :
              /\ PkFuncImports(XOut)[i].module = "env"
              /\ PkFuncImports(XOut)[i].field = name
              /\ PkFuncImports(XOut)[i].external.type_ref =
                    SectionEntries(XIn, "Function")[XFuncOf(name) - XTotal + 1]
    /\ \A i \in XNewImports : PkFuncImports(XOut)[i].field \in XNamed
    /\ \A i \in 1 .. XTotal : PkFuncImports(XOut)[i] = PkFuncImports(XIn)[i]

\* A call to target x has become a call to y as the claim says: to an
\* appended import of that function when x is externalized, to the same
\* function else.
XCallOk(x, y) ==
    IF x \in XReplaced
    THEN /\ XDenotesOut(y)[1] = "new"
         /\ XDenotesOut(y)[2] \in XNamed
         /\ XFuncOf(XDenotesOut(y)[2]) = x
    ELSE XDenotesOut(y) = XDenotesIn(x)

XCallsRewired ==
    \A f \in DOMAIN SectionEntries(XIn, "Code") :
        LET a == CallTargets(SectionEntries(XIn, "Code")[f].code)
            b == CallTargets(SectionEntries(XOut, "Code")[f].code)
        IN Len(a) = Len(b) /\ \A k \in DOMAIN a : XCallOk(a[k], b[k])

XExportsRewired ==
    \A i \in DOMAIN SectionEntries(XIn, "Export") :
        LET a == SectionEntries(XIn, "Export")[i]
            b == SectionEntries(XOut, "Export")[i]
        IN /\ a.field = b.field /\ a.internal.kind = b.internal.kind
           /\ IF a.internal.kind = "Function"
              THEN XDenotesOut(b.internal.idx) = XDenotesIn(a.internal.idx)
              ELSE a = b

XElementsRewired ==
    \A i \in DOMAIN SectionEntries(XIn, "Element") :
        LET a == SectionEntries(XIn, "Element")[i].members
            b == SectionEntries(XOut, "Element")[i].members
        IN Len(a) = Len(b) /\ \A k \in DOMAIN a : XDenotesOut(b[k]) = XDenotesIn(a[k])

\* C20: after externalize(names), for each exported function named in names
\* a function import (env, name) of the same type is appended, every Call to
\* that function at any nesting depth goes to the new import, and every
\* other function reference (Call target, exported function index, element
\* member) at or above the original function-import count, the first defined
\* function included, is raised by the number of new imports and denotes the
\* function it denoted.
C20_Externalize ==
    (XDone /\ x_out.status = "Ok") =>
        /\ XImportsAppended
        /\ XCallsRewired
        /\ XExportsRewired
        /\ XElementsRewired

\* Everything but the calls.
ExternalizeButCalls ==
    (XDone /\ x_out.status = "Ok") =>
        XImportsAppended /\ XExportsRewired /\ XElementsRewired

\* The calls at the top of a body whose target is not the first defined
\* function, or is externalized.
ExternalizeTopCalls ==
    (XDone /\ x_out.status = "Ok") =>
        \A f \in DOMAIN SectionEntries(XIn, "Code") :
            LET a == SectionEntries(XIn, "Code")[f].code
                b == SectionEntries(XOut, "Code")[f].code
            IN \A k \in DOMAIN a :
                  (a[k].op = "Call" /\ (a[k].idx # XTotal \/ a[k].idx \in XReplaced)) =>
                      b[k].op = "Call" /\ XCallOk(a[k].idx, b[k].idx)

(***************************************************************************)
(* ext.rs: externalize_mem                                                 *)
(***************************************************************************)

\* builder::from_module(module) ... build(): the sections of a kind that has
\* entries are given back only when they are not empty.
BuilderBuild(m) ==
    ModuleNew(SelectSeq(m.sections,
        LAMBDA section : section.kind \in {"Start", "Custom"} \/ Entries(section) # <<>>))

\* externalize_mem(module, adjust_pages, max_pages); adjust_pages is None or
\* Some(pages)
externalize_mem(module, adjust_pages, max_pages) ==
    IF ~HasSection(module, "Memory") \/ SectionEntries(module, "Memory") = <<>>
    THEN [status |-> "panic"]
    ELSE LET at == SectionPos(module, "Memory")
             entries == SectionEntries(module, "Memory")
             popped == entries[Len(entries)]
             rest == [module EXCEPT !.sections[at] =
                         MemorySection(SubSeq(entries, 1, Len(entries) - 1))]
             adjusted == IF adjust_pages # None
                         THEN Limits(adjust_pages[1], Some(max_pages))
                         ELSE popped
             entry == IF adjusted.maximum = None
                      THEN Limits(adjusted.initial, Some(max_pages))
                      ELSE adjusted
         IN IF adjust_pages # None /\ ~(adjust_pages[1] <= max_pages)
            THEN [status |-> "panic"]
            ELSE [status |-> "Ok",
                  module |-> BuilderBuild(push_import(rest,
                                 ImportEntry("env", "memory",
                                             ExtMemory(entry.initial, entry.maximum))))]

\* ---- inputs of externalize_mem ----

MaxPages == 17        \* bound: the largest page count tried

\* The page counts tried: small ones, and those around the max_pages of
\* build.rs.
Pages == {0, 1, 2, 16, MaxPages}

\* 0: no memory section; 1: an empty one; 2: one memory.
MemChoices ==
    [mem : 0 .. 2, initial : Pages, maximum : {None} \cup {Some(p) : p \in Pages},
     imp : BOOLEAN, adjust_pages : {None} \cup {Some(p) : p \in Pages},
     max_pages : {1, 16}]

\* A declared maximum is not below the initial size; a module without memory
\* has one input only.
MemChoiceOk(c) ==
    /\ c.maximum # None => c.maximum[1] >= c.initial
    /\ c.mem < 2 => c.initial = 0 /\ c.maximum = None

MemBuild(c) ==
    LET opt(b, sec) == IF b THEN <<sec>> ELSE <<>>
    IN ModuleNew(
          <<TypeSection(XTypes)>>
       \o opt(c.imp, ImportSection(<<ImportEntry("env", "ext", ExtFunction(1))>>))
       \o <<FunctionSection(<<0>>)>>
       \o opt(c.mem = 1, MemorySection(<<>>))
       \o opt(c.mem = 2, MemorySection(<<Limits(c.initial, c.maximum)>>))
       \o <<ExportSection(<<ExportEntry("a", "Function", IF c.imp THEN 1 ELSE 0)>>),
            CodeSection(<<FuncBodyE(<<>>, <<End>>)>>)>>)

MemInit ==
    /\ \E c \in MemChoices :
          /\ MemChoiceOk(c)
          /\ x_in = [module |-> MemBuild(c), adjust_pages |-> c.adjust_pages,
                     max_pages |-> c.max_pages]
    /\ x_out = GIdle
    /\ x_pc = "start"

\* externalize_mem(module, adjust_pages, max_pages)
MemExternalize ==
    /\ x_pc = "start"
    /\ x_out' = externalize_mem(x_in.module, x_in.adjust_pages, x_in.max_pages)
    /\ x_pc' = "done"
    /\ UNCHANGED x_in

InitExtMem == MemInit /\ OtherIdleX

NextExtMem == MemExternalize /\ UNCHANGED <<rlVars, gVars, oVars, gasVars, stVars, pkVars>>

SpecExtMem == InitExtMem /\ [][NextExtMem]_vars

\* ---- claims about externalize_mem ----

\* The memory imports of the result.
MemImports ==
    SelectKind(SectionEntries(XOut, "Import"), "Memory")

\* The memory the module handed in defines, when it defines one.
MemDefined == SectionEntries(XIn, "Memory")

\* adjust_pages, when given, is not above max_pages: the assertion of
\* externalize_mem.
MemAsserted == x_in.adjust_pages # None => x_in.adjust_pages[1] <= x_in.max_pages

\* C21: for every module with zero or one defined memory, the result of
\* externalize_mem has exactly one imported memory (env, memory) and no
\* defined memory; its initial is adjust_initial when given and the previous
\* initial otherwise, its maximum is max_pages, and maximum >= initial.
C21_ExternalizeMem ==
    (XDone /\ MemAsserted) =>
        /\ x_out.status = "Ok"
        /\ Len(MemImports) = 1
        /\ MemImports[1].module = "env" /\ MemImports[1].field = "memory"
        /\ SectionEntries(XOut, "Memory") = <<>>
        /\ MemImports[1].external.initial =
              (IF x_in.adjust_pages # None THEN x_in.adjust_pages[1]
               ELSE IF MemDefined # <<>> THEN MemDefined[1].initial ELSE 0)
        /\ MemImports[1].external.maximum = Some(x_in.max_pages)
        /\ MemImports[1].external.maximum[1] >= MemImports[1].external.initial

\* The same for a module that defines one memory, with adjust_pages given.
ExternalizeMemAdjusted ==
    (XDone /\ MemAsserted /\ Len(MemDefined) = 1 /\ x_in.adjust_pages # None) =>
        /\ x_out.status = "Ok"
        /\ Len(MemImports) = 1
        /\ MemImports[1].module = "env" /\ MemImports[1].field = "memory"
        /\ SectionEntries(XOut, "Memory") = <<>>
        /\ MemImports[1].external = ExtMemory(x_in.adjust_pages[1], Some(x_in.max_pages))

\* One memory defined and no adjust_pages: the memory is imported with its
\* own initial, and with its own maximum when it has one.
ExternalizeMemKept ==
    (XDone /\ Len(MemDefined) = 1 /\ x_in.adjust_pages = None) =>
        /\ x_out.status = "Ok"
        /\ Len(MemImports) = 1
        /\ SectionEntries(XOut, "Memory") = <<>>
        /\ MemImports[1].external.initial = MemDefined[1].initial
        /\ MemImports[1].external.maximum =
              (IF MemDefined[1].maximum = None THEN Some(x_in.max_pages)
               ELSE MemDefined[1].maximum)

(***************************************************************************)
(* ext.rs: shrink_unknown_stack                                            *)
(***************************************************************************)

\* LittleEndian::read_u32 of four bytes
read_u32(bytes) ==
    [hi |-> bytes[3] + 256 * bytes[4], lo |-> bytes[1] + 256 * bytes[2]]

\* LittleEndian::write_u32: the four bytes of a u32
write_u32(v) == <<v.lo % 256, v.lo \div 256, v.hi % 256, v.hi \div 256>>

\* a < b on u32
u32_less(a, b) == a.hi < b.hi \/ (a.hi = b.hi /\ a.lo < b.lo)

\* a - b on u32 in a build without overflow checks: modulo 2^32
wrapping_sub(a, b) ==
    LET borrow == IF a.lo < b.lo THEN 1 ELSE 0
    IN [hi |-> (a.hi - b.hi - borrow + 2^16) % 2^16, lo |-> (a.lo - b.lo + 2^16) % 2^16]

\* shrink_unknown_stack, the loop over the segments of a data section from
\* position k on: [status, entries, new_stack_top]
RECURSIVE ShrinkLoop(_, _, _, _, _)
ShrinkLoop(entries, k, shrink_amount, new_stack_top, overflow_checks) ==
    IF k > Len(entries)
    THEN [status |-> "Ok", entries |-> entries, new_stack_top |-> new_stack_top]
    ELSE LET data_segment == entries[k] IN
         IF data_segment.offset = <<I32Const(4), End>>
         THEN IF Len(data_segment.value) # 4 THEN [status |-> "panic"]
              ELSE LET current_val == read_u32(data_segment.value)
                       new_val == wrapping_sub(current_val, shrink_amount)
                   IN IF overflow_checks /\ u32_less(current_val, shrink_amount)
                      THEN [status |-> "panic"]
                      ELSE ShrinkLoop([entries EXCEPT ![k].value = write_u32(new_val)],
                                      k + 1, shrink_amount, new_val, overflow_checks)
         ELSE ShrinkLoop(entries, k + 1, shrink_amount, new_stack_top, overflow_checks)

\* shrink_unknown_stack, the loop over the sections from position i on
RECURSIVE ShrinkSections(_, _, _, _, _)
ShrinkSections(module, i, shrink_amount, new_stack_top, overflow_checks) ==
    IF i > Len(module.sections)
    THEN [status |-> "Ok", module |-> module, new_stack_top |-> new_stack_top]
    ELSE IF module.sections[i].kind = "Data"
         THEN LET r == ShrinkLoop(module.sections[i].data, 1, shrink_amount,
                                  new_stack_top, overflow_checks)
              IN IF r.status # "Ok" THEN [status |-> "panic"]
                 ELSE ShrinkSections([module EXCEPT !.sections[i] = DataSection(r.entries)],
                                     i + 1, shrink_amount, r.new_stack_top, overflow_checks)
         ELSE ShrinkSections(module, i + 1, shrink_amount, new_stack_top, overflow_checks)

\* shrink_unknown_stack(module, shrink_amount), built with or without
\* overflow checks
shrink_unknown_stack(module, shrink_amount, overflow_checks) ==
    ShrinkSections(module, 1, shrink_amount, u32(0), overflow_checks)

\* ---- inputs of shrink_unknown_stack ----

\* The stack tops tried, as the four bytes of the segment: 0, 0xFFFF, 64 KiB,
\* 1 MiB, 0x04030201 and the largest u32.
ShrinkValues ==
    {<<0, 0, 0, 0>>, <<255, 255, 0, 0>>, <<0, 0, 1, 0>>, <<0, 0, 16, 0>>, <<1, 2, 3, 4>>,
     <<255, 255, 255, 255>>}

\* The amounts tried: 0, 1, 0xFFFF, 64 KiB, 1 MiB - 64 KiB, the largest u32.
ShrinkAmounts ==
    {[hi |-> 0, lo |-> 0], [hi |-> 0, lo |-> 1], [hi |-> 0, lo |-> 65535],
     [hi |-> 1, lo |-> 0], [hi |-> 15, lo |-> 0], [hi |-> 65535, lo |-> 65535]}

\* 0: no data section; 1: the stack-top segment alone; 2: after another
\* segment; 3: between a segment placed by a global and one whose offset
\* expression only evaluates to 4; 4: three bytes at offset 4; 5: no segment
\* at offset 4.
ShrinkData(d, value) ==
    CASE d = 1 -> <<DataSegmentE(0, <<I32Const(4), End>>, value)>>
      [] d = 2 -> <<DataSegmentE(0, <<I32Const(8), End>>, <<9, 9, 9, 9>>),
                    DataSegmentE(0, <<I32Const(4), End>>, value)>>
      [] d = 3 -> <<DataSegmentE(0, <<GetGlobal(0), End>>, <<7, 7, 7, 7>>),
                    DataSegmentE(0, <<I32Const(4), End>>, value),
                    DataSegmentE(0, <<I32Const(4), I32Const(0), I32Add, End>>, <<5, 5, 5, 5>>)>>
      [] d = 4 -> <<DataSegmentE(0, <<I32Const(4), End>>, SubSeq(value, 1, 3))>>
      [] d = 5 -> <<DataSegmentE(0, <<I32Const(0), End>>, value)>>
      [] OTHER -> <<>>

ShrinkChoices == [data : 0 .. 5, value : ShrinkValues, shrink_amount : ShrinkAmounts]

ShrinkBuild(c) ==
    ModuleNew(
          <<TypeSection(XTypes), FunctionSection(<<0>>),
            MemorySection(<<Limits(17, None)>>),
            ExportSection(<<ExportEntry("a", "Function", 0)>>),
            CodeSection(<<FuncBodyE(<<>>, <<End>>)>>)>>
       \o (IF c.data > 0 THEN <<DataSection(ShrinkData(c.data, c.value))>> ELSE <<>>))

ShrinkInit ==
    /\ \E c \in ShrinkChoices :
          x_in = [module |-> ShrinkBuild(c), shrink_amount |-> c.shrink_amount]
    /\ x_out = GIdle
    /\ x_pc = "start"

\* shrink_unknown_stack(module, shrink_amount)
ShrinkStack ==
    /\ x_pc = "start"
    /\ \E overflow_checks \in BOOLEAN :
          x_out' = shrink_unknown_stack(x_in.module, x_in.shrink_amount, overflow_checks)
    /\ x_pc' = "done"
    /\ UNCHANGED x_in

InitShrink == ShrinkInit /\ OtherIdleX

NextShrink == ShrinkStack /\ UNCHANGED <<rlVars, gVars, oVars, gasVars, stVars, pkVars>>

SpecShrink == InitShrink /\ [][NextShrink]_vars

\* ---- claims about shrink_unknown_stack ----

ShrinkIn == SectionEntries(XIn, "Data")

\* The segments placed by exactly `i32.const 4; end`.
ShrinkAt == {i \in DOMAIN ShrinkIn : ShrinkIn[i].offset = <<I32Const(4), End>>}

\* There is such a segment, and each one holds four bytes.
ShrinkPre == ShrinkAt # {} /\ \A i \in ShrinkAt : Len(ShrinkIn[i].value) = 4

\* shrink_amount is not above the current stack top of segment i.
ShrinkFits(i) == ~u32_less(read_u32(ShrinkIn[i].value), x_in.shrink_amount)

\* The exact difference current - shrink_amount when it is not negative.
ShrinkDifference(i) ==
    LET a == read_u32(ShrinkIn[i].value)
        b == x_in.shrink_amount
    IN IF a.lo >= b.lo THEN [hi |-> a.hi - b.hi, lo |-> a.lo - b.lo]
       ELSE [hi |-> a.hi - b.hi - 1, lo |-> a.lo + 2^16 - b.lo]

\* The segment holds current - shrink_amount, that value is returned, and
\* the other segments are as they were.
ShrinkDone(i) ==
    /\ x_out.status = "Ok"
    /\ SectionEntries(XOut, "Data")[i].value = write_u32(ShrinkDifference(i))
    /\ SectionEntries(XOut, "Data")[i].offset = ShrinkIn[i].offset
    /\ x_out.new_stack_top = ShrinkDifference(i)
    /\ \A j \in DOMAIN ShrinkIn \ ShrinkAt : SectionEntries(XOut, "Data")[j] = ShrinkIn[j]

\* C22: the data segment whose offset expression is exactly `i32.const 4;
\* end` and whose four bytes hold the little-endian u32 current holds
\* afterwards the little-endian encoding of current - shrink_amount, and that
\* value is returned as the new stack top, for every u32 shrink_amount; when
\* shrink_amount > current no wrapped value is written; all other data
\* segments are unchanged.
C22_ShrinkStack ==
    (XDone /\ ShrinkPre) =>
        \A i \in ShrinkAt :
            IF ShrinkFits(i) THEN ShrinkDone(i)
            ELSE ~(/\ x_out.status = "Ok"
                   /\ SectionEntries(XOut, "Data")[i].value =
                         write_u32(wrapping_sub(read_u32(ShrinkIn[i].value), x_in.shrink_amount)))

\* The same for amounts that are not above the current stack top.
ShrinkWithinStack ==
    (XDone /\ ShrinkPre) => \A i \in ShrinkAt : ShrinkFits(i) => ShrinkDone(i)

(***************************************************************************)
(* ext.rs: underscore_funcs, ununderscore_funcs                            *)
(* A name is the sequence of its characters.                               *)
(***************************************************************************)

\* |n| n.insert(0, '_')
insert_underscore(n) == <<"_">> \o n

\* |n| { n.remove(0); }: String::remove panics when the name is empty
remove_first(n) == IF n = <<>> THEN "panic" ELSE Tail(n)

\* foreach_public_func_name(module, f): f on the field of every function
\* import of the import section and of every function export of the export
\* section
foreach_public_func_name(module, f(_)) ==
    LET renamed(entries, IsFunc(_)) ==
            [i \in DOMAIN entries |->
                IF IsFunc(entries[i]) THEN [entries[i] EXCEPT !.field = f(@)] ELSE entries[i]]
        is == SectionPos(module, "Import")
        es == SectionPos(module, "Export")
        touched == {module.sections[is].imports[i].field :
                       i \in {j \in DOMAIN SectionEntries(module, "Import") :
                                 module.sections[is].imports[j].external.kind = "Function"}}
                   \cup
                   {module.sections[es].exports[i].field :
                       i \in {j \in DOMAIN SectionEntries(module, "Export") :
                                 module.sections[es].exports[j].internal.kind = "Function"}}
    IN IF \E n \in touched : f(n) = "panic" THEN [status |-> "panic"]
       ELSE [status |-> "Ok",
             module |-> ModuleNew([k \in DOMAIN module.sections |->
                 IF k = is
                 THEN ImportSection(renamed(module.sections[k].imports,
                                            LAMBDA e : e.external.kind = "Function"))
                 ELSE IF k = es
                 THEN ExportSection(renamed(module.sections[k].exports,
                                            LAMBDA e : e.internal.kind = "Function"))
                 ELSE module.sections[k]])]

underscore_funcs(module) == foreach_public_func_name(module, insert_underscore)

ununderscore_funcs(module) == foreach_public_func_name(module, remove_first)

\* ---- inputs of underscore_funcs and ununderscore_funcs ----

MaxName == 2          \* bound: characters of a name after an underscore

\* The names tried: the empty name, and names with and without a leading
\* underscore.
UNames ==
    {<<>>, <<"_">>, <<"a">>, <<"_", "a">>, <<"a", "_">>, <<"_", "_">>}
    \cup {<<"_">> \o [i \in 1 .. MaxName |-> "b"], [i \in 1 .. MaxName |-> "b"]}

UChoices ==
    [imp : BOOLEAN, exp : BOOLEAN, fimport : UNames, oimport : {<<"m">>, <<"_", "m">>},
     fexport : UNames, oexport : {<<>>, <<"_", "g">>}]

UBuild(c) ==
    LET opt(b, sec) == IF b THEN <<sec>> ELSE <<>>
        first == IF c.imp THEN 1 ELSE 0
    IN ModuleNew(
          <<TypeSection(XTypes)>>
       \o opt(c.imp, ImportSection(<<ImportEntry("env", c.oimport, ExtMemory(1, None)),
                                      ImportEntry("env", c.fimport, ExtFunction(1))>>))
       \o <<FunctionSection(<<0>>)>>
       \o <<GlobalSection(<<GlobalEntry("I32", FALSE, <<I32Const(0), End>>)>>)>>
       \o opt(c.exp, ExportSection(<<ExportEntry(c.fexport, "Function", first),
                                      ExportEntry(c.oexport, "Global", 0)>>))
       \o <<CodeSection(<<FuncBodyE(<<>>, <<End>>)>>)>>)

\* Without import section the names of imports make no difference.
UChoiceOk(c) ==
    /\ ~c.imp => c.fimport = <<>> /\ c.oimport = <<"m">>
    /\ ~c.exp => c.fexport = <<>> /\ c.oexport = <<>>

UInit ==
    /\ \E c \in UChoices : UChoiceOk(c) /\ x_in = [module |-> UBuild(c)]
    /\ x_out = GIdle
    /\ x_pc = "start"

\* underscore_funcs(module)
UUnderscore ==
    /\ x_pc = "start"
    /\ x_out' = underscore_funcs(x_in.module)
    /\ x_pc' = "underscored"
    /\ UNCHANGED x_in

\* ununderscore_funcs, of the module handed in or of the result of
\* underscore_funcs
UUnunderscore ==
    \/ /\ x_pc = "start"
       /\ x_out' = ununderscore_funcs(x_in.module)
       /\ x_pc' = "stripped"
       /\ UNCHANGED x_in
    \/ /\ x_pc = "underscored"
       /\ x_out' = ununderscore_funcs(x_out.module)
       /\ x_pc' = "round"
       /\ UNCHANGED x_in

InitUnderscore == UInit /\ OtherIdleX

NextUnderscore ==
    (UUnderscore \/ UUnunderscore) /\ UNCHANGED <<rlVars, gVars, oVars, gasVars, stVars, pkVars>>

SpecUnderscore == InitUnderscore /\ [][NextUnderscore]_vars

\* ---- claims about underscore_funcs and ununderscore_funcs ----

\* Entry i of a section of the result against the module handed in: the
\* entry is as it was but for its field, which is what Renamed makes of it.
UFieldsAre(kind, IsFunc(_), Renamed(_)) ==
    /\ Len(SectionEntries(XOut, kind)) = Len(SectionEntries(XIn, kind))
    /\ \A i \in DOMAIN SectionEntries(XIn, kind) :
          LET a == SectionEntries(XIn, kind)[i]
              b == SectionEntries(XOut, kind)[i]
          IN b = [a EXCEPT !.field = IF IsFunc(a) THEN Renamed(@) ELSE @]

UNamesAre(Renamed(_)) ==
    /\ x_out.status = "Ok"
    /\ UFieldsAre("Import", LAMBDA e : e.external.kind = "Function", Renamed)
    /\ UFieldsAre("Export", LAMBDA e : e.internal.kind = "Function", Renamed)

\* A name without one leading underscore, when it has one.
Stripped(n) == IF n # <<>> /\ Head(n) = "_" THEN Tail(n) ELSE n

\* C23: underscore_funcs adds and ununderscore_funcs strips a single `_` on
\* the name of every function import and function export;
\* ununderscore_funcs(underscore_funcs(M)) = M; names of other imports and
\* exports never change; ununderscore_funcs changes a name only by removing
\* one leading `_`, and leaves a name that does not start with `_`, the
\* empty name included, as it is.
C23_Underscore ==
    /\ x_pc = "underscored" => UNamesAre(insert_underscore)
    /\ x_pc = "round" => x_out.status = "Ok" /\ x_out.module = x_in.module
    /\ x_pc = "stripped" => UNamesAre(Stripped)

\* The same without ununderscore_funcs on the module handed in.
UnderscoreRoundTrip ==
    /\ x_pc = "underscored" => UNamesAre(insert_underscore)
    /\ x_pc = "round" => x_out.status = "Ok" /\ x_out.module = x_in.module

\* ununderscore_funcs takes the first character of every function name,
\* whatever it is, and leaves the other names alone.
UnunderscoreFirst ==
    (x_pc = "stripped" /\ x_out.status = "Ok") => UNamesAre(Tail)

\* ---- claims about the code section in graph.rs ----

\* The declared functions of the graph, in order.
GDeclared == WithOrigin(IterVals(g_graph.funcs), "Declared")

\* Graph instruction t is the translation of instruction i: a handle on the
\* entry i names for the four referential instructions, i itself else.
GTranslates(t, i) ==
    CASE i.op = "Call" -> t.tag = "Call" /\ order(g_graph.funcs, t.ref) = Some(i.idx)
      [] i.op = "CallIndirect" ->
            /\ t.tag = "CallIndirect" /\ t.reserved = i.reserved
            /\ order(g_graph.types, t.ref) = Some(i.idx)
      [] i.op = "GetGlobal" -> t.tag = "GetGlobal" /\ order(g_graph.globals, t.ref) = Some(i.idx)
      [] i.op = "SetGlobal" -> t.tag = "SetGlobal" /\ order(g_graph.globals, t.ref) = Some(i.idx)
      [] OTHER -> t.tag = "Plain" /\ t.instr = i

\* Declared function i of the graph carries body i of the code section.
GCarries(i) ==
    LET func_body == SectionEntries(g_in, "Code")[i]
        body == GDeclared[i].origin.body
    IN /\ body.locals = func_body.locals
       /\ Len(body.code) = Len(func_body.code)
       /\ \A k \in DOMAIN func_body.code : GTranslates(body.code[k], func_body.code[k])

\* C24: after from_elements(M), for every i the i-th declared function of
\* the graph carries the locals and the translated instructions of the i-th
\* body of M's code section; Call, CallIndirect, GetGlobal and SetGlobal
\* become handle-carrying instructions, every other instruction is kept
\* verbatim and in order.
C24_CodeIngestion ==
    g_pc = "parsed" =>
        /\ Len(GDeclared) = Len(SectionEntries(g_in, "Code"))
        /\ \A i \in DOMAIN SectionEntries(g_in, "Code") : GCarries(i)

\* What from_elements does: every body is written to the first declared
\* function, which ends up carrying the last body; the others stay empty.
CodeIngestionFirstOnly ==
    (g_pc = "parsed" /\ SectionEntries(g_in, "Code") # <<>>) =>
        LET n == Len(SectionEntries(g_in, "Code"))
            func_body == SectionEntries(g_in, "Code")[n]
            body == GDeclared[1].origin.body
        IN /\ body.locals = func_body.locals
           /\ Len(body.code) = Len(func_body.code)
           /\ \A k \in DOMAIN func_body.code : GTranslates(body.code[k], func_body.code[k])
           /\ \A i \in 2 .. n : GDeclared[i].origin.body = GFuncBody(<<>>, <<>>)

(***************************************************************************)
(* graph.rs: deletion of unreferenced entries before generate              *)
(***************************************************************************)

\* The instructions of the graph: bodies of declared functions, initialisers
\* of declared globals, offsets of element and data segments.
GraphCode(g) ==
    {f.origin.body.code : f \in {x \in {g.funcs.entries[h].val : h \in DOMAIN g.funcs.entries} :
                                    x.origin.tag = "Declared"}}
    \cup {v.origin.body : v \in {x \in {g.globals.entries[h].val : h \in DOMAIN g.globals.entries} :
                                    x.origin.tag = "Declared"}}
    \cup {g.elements[i].location.code : i \in DOMAIN g.elements}
    \cup {g.data[i].location.code : i \in DOMAIN g.data}

\* Some instruction of the graph with one of the tags holds handle h.
GraphCodeRefers(g, tags, h) ==
    \E code \in GraphCode(g) : \E k \in DOMAIN code : code[k].tag \in tags /\ code[k].ref = h

\* Function, global or type h of the graph is referenced.
FuncReferenced(g, h) ==
    \/ GraphCodeRefers(g, {"Call"}, h)
    \/ \E i \in DOMAIN g.exports : g.exports[i].local = [kind |-> "Func", ref |-> h]
    \/ g.start = Some(h)
    \/ \E i \in DOMAIN g.elements : \E k \in DOMAIN g.elements[i].value :
          /\ g.elements[i].value[k] < len(g.funcs)
          /\ clone_ref(g.funcs, g.elements[i].value[k]) = h

GlobalReferenced(g, h) ==
    \/ GraphCodeRefers(g, {"GetGlobal", "SetGlobal"}, h)
    \/ \E i \in DOMAIN g.exports : g.exports[i].local = [kind |-> "Global", ref |-> h]

TypeReferenced(g, h) ==
    \/ GraphCodeRefers(g, {"CallIndirect"}, h)
    \/ \E f \in DOMAIN g.funcs.items : read(g.funcs, g.funcs.items[f]).type_ref = h

\* module.funcs.delete(&[idx]), module.globals.delete(&[idx]) or
\* module.types.delete(&[idx]) on an entry that nothing references
GDelete ==
    /\ g_pc = "parsed"
    /\ \/ \E idx \in 0 .. len(g_graph.funcs) - 1 :
             /\ ~FuncReferenced(g_graph, clone_ref(g_graph.funcs, idx))
             /\ g_graph' = [g_graph EXCEPT !.funcs = done_delete(@, <<idx>>).list]
       \/ \E idx \in 0 .. len(g_graph.globals) - 1 :
             /\ ~GlobalReferenced(g_graph, clone_ref(g_graph.globals, idx))
             /\ g_graph' = [g_graph EXCEPT !.globals = done_delete(@, <<idx>>).list]
       \/ \E idx \in 0 .. len(g_graph.types) - 1 :
             /\ ~TypeReferenced(g_graph, clone_ref(g_graph.types, idx))
             /\ g_graph' = [g_graph EXCEPT !.types = done_delete(@, <<idx>>).list]
    /\ g_pc' = "deleted"
    /\ UNCHANGED <<g_in, g_out>>

\* graph::generate on the graph after the deletion
GGenerateDeleted ==
    /\ g_pc = "deleted"
    /\ g_out' = generate(g_graph)
    /\ g_pc' = "emitted"
    /\ UNCHANGED <<g_in, g_graph>>

NextGraphDelete ==
    \/ GParse /\ UNCHANGED <<rlVars, oVars, gasVars, stVars, pkVars, xVars>>
    \/ GDelete /\ UNCHANGED <<rlVars, oVars, gasVars, stVars, pkVars, xVars>>
    \/ GGenerateDeleted /\ UNCHANGED <<rlVars, oVars, gasVars, stVars, pkVars, xVars>>

SpecGraphDelete == InitGraph /\ [][NextGraphDelete]_vars

\* ---- claims about the emission after a deletion ----

\* The graph before the deletion.
GBefore == from_elements(g_in)

\* The entry an index of the emitted module denotes: the handle at that
\* position of the list (0 when there is none).
GAt(l, idx) == IF idx < len(l) THEN clone_ref(l, idx) ELSE 0

\* The handles of the imported and of the declared functions, in order.
GFuncHandles(tag) ==
    SelectSeq(g_graph.funcs.items, LAMBDA h : read(g_graph.funcs, h).origin.tag = tag)

\* Emitted instruction i denotes what graph instruction t refers to.
GDenotes(t, i) ==
    CASE t.tag = "Call" -> i.op = "Call" /\ GAt(g_graph.funcs, i.idx) = t.ref
      [] t.tag = "CallIndirect" -> i.op = "CallIndirect" /\ GAt(g_graph.types, i.idx) = t.ref
      [] t.tag = "GetGlobal" -> i.op = "GetGlobal" /\ GAt(g_graph.globals, i.idx) = t.ref
      [] t.tag = "SetGlobal" -> i.op = "SetGlobal" /\ GAt(g_graph.globals, i.idx) = t.ref
      [] OTHER -> i = t.instr

GCodeDenotes(code, emitted) ==
    Len(code) = Len(emitted) /\ \A k \in DOMAIN code : GDenotes(code[k], emitted[k])

\* Calls, indirect call types and global accesses of the emitted bodies.
EmittedCode ==
    /\ Len(SectionEntries(g_out, "Code")) = Len(GFuncHandles("Declared"))
    /\ \A i \in DOMAIN GFuncHandles("Declared") :
          GCodeDenotes(read(g_graph.funcs, GFuncHandles("Declared")[i]).origin.body.code,
                       SectionEntries(g_out, "Code")[i].code)

\* Type references of the emitted function imports and function section.
EmittedTypeRefs ==
    /\ \A i \in DOMAIN GFuncHandles("Declared") :
          GAt(g_graph.types, SectionEntries(g_out, "Function")[i]) =
             read(g_graph.funcs, GFuncHandles("Declared")[i]).type_ref
    /\ \A i \in DOMAIN GFuncHandles("Imported") :
          GAt(g_graph.types, SelectKind(SectionEntries(g_out, "Import"), "Function")[i]
                                .external.type_ref) =
             read(g_graph.funcs, GFuncHandles("Imported")[i]).type_ref

EmittedExports ==
    \A i \in DOMAIN g_graph.exports :
        LET local == g_graph.exports[i].local
            e == SectionEntries(g_out, "Export")[i].internal
        IN CASE local.kind = "Func" -> e.kind = "Function" /\ GAt(g_graph.funcs, e.idx) = local.ref
             [] local.kind = "Global" -> e.kind = "Global" /\ GAt(g_graph.globals, e.idx) = local.ref
             [] OTHER -> TRUE

EmittedStart ==
    g_graph.start # None =>
        /\ HasSection(g_out, "Start")
        /\ GAt(g_graph.funcs, g_out.sections[SectionPos(g_out, "Start")].idx) = g_graph.start[1]

\* An element member denotes the function it denoted before the deletion.
EmittedElements ==
    \A i \in DOMAIN g_graph.elements :
        LET before == SectionEntries(g_in, "Element")[i].members
            after == SectionEntries(g_out, "Element")[i].members
        IN /\ Len(before) = Len(after)
           /\ \A k \in DOMAIN before :
                 GAt(g_graph.funcs, after[k]) = clone_ref(GBefore.funcs, before[k])

\* C25: after unreferenced entries are deleted from the function, global or
\* type list of a graph module, generate writes the current order of the
\* referenced entry for every cross-reference: every Call target,
\* CallIndirect type, GetGlobal/SetGlobal target, exported index, start
\* function, function type reference and element-segment member denotes in
\* the emitted module the entity it denoted before the deletion.
C25_EmitRenumbers ==
    g_pc = "emitted" =>
        /\ EmittedCode /\ EmittedTypeRefs /\ EmittedExports /\ EmittedStart
        /\ EmittedElements

\* The same without the element-segment members.
EmitRenumbersHandles ==
    g_pc = "emitted" =>
        EmittedCode /\ EmittedTypeRefs /\ EmittedExports /\ EmittedStart

\* ---- claims about optimizer.rs: indirect calls and the start section ----

\* The type indices of the indirect calls of an instruction sequence, at any
\* nesting depth, in code order.
RECURSIVE IndirectTypes(_)
IndirectTypes(opcodes) ==
    IF opcodes = <<>> THEN <<>>
    ELSE (CASE Head(opcodes).op = "CallIndirect" -> <<Head(opcodes).idx>>
            [] IsNested(Head(opcodes)) -> IndirectTypes(Head(opcodes).body)
            [] OTHER -> <<>>)
         \o IndirectTypes(Tail(opcodes))

\* The number of types of the input below index t that are not in the output.
EliminatedBelow(min, mout, t) ==
    Cardinality({u \in 0 .. t - 1 :
        \A k \in DOMAIN SectionEntries(mout, "Type") :
            SectionEntries(mout, "Type")[k] # SectionEntries(min, "Type")[u + 1]})

\* Body k of the output is body j of the input; its indirect calls name kept
\* types, each index lowered by the number of eliminated types below it.
IndirectKept(min, mout, j, k) ==
    LET before == IndirectTypes(SectionEntries(min, "Code")[j].code)
        after == IndirectTypes(SectionEntries(mout, "Code")[k].code)
    IN /\ Len(before) = Len(after)
       /\ \A i \in DOMAIN before :
             /\ TypeIdent(mout, after[i]) # <<>>
             /\ TypeIdent(mout, after[i]) = TypeIdent(min, before[i])
             /\ after[i] = before[i] - EliminatedBelow(min, mout, before[i])

\* C26: when a reachable function body holds CallIndirect(t), type t is kept
\* even if no kept function or import has that signature, and after optimize
\* the type index of the CallIndirect is lowered by the number of eliminated
\* types with a smaller index, so that it denotes the same type as before.
C26_CallIndirectType ==
    (ODone /\ o_out.status = "Ok") =>
        \A k \in DOMAIN SectionEntries(o_out.module, "Code") :
            \A j \in DOMAIN SectionEntries(o_in.module, "Code") :
                SectionEntries(o_out.module, "Code")[k].code[1]
                    = SectionEntries(o_in.module, "Code")[j].code[1] =>
                        IndirectKept(o_in.module, o_out.module, j, k)

\* The function index of the start section of a module that has one.
StartOf(m) == m.sections[SectionPos(m, "Start")].idx

\* C27: for every module with a start section and every keep-list, after
\* optimize the function index of the start section resolves to an existing
\* function and denotes the function it denoted before: the start function
\* is not eliminated and its index is renumbered like every other function
\* reference.
C27_StartSection ==
    (ODone /\ o_out.status = "Ok" /\ HasSection(o_in.module, "Start")) =>
        /\ HasSection(o_out.module, "Start")
        /\ FuncIdent(o_out.module, StartOf(o_out.module)) # <<>>
        /\ FuncIdent(o_out.module, StartOf(o_out.module))
              = FuncIdent(o_in.module, StartOf(o_in.module))

\* What optimize does with a start section: it is passed through as it is.
StartSectionUntouched ==
    (ODone /\ o_out.status = "Ok" /\ HasSection(o_in.module, "Start")) =>
        /\ HasSection(o_out.module, "Start")
        /\ StartOf(o_out.module) = StartOf(o_in.module)

\* ---- claims about stack_cost ----

\* The number of local variables a body declares, every variable of every
\* group counted.
RECURSIVE LocalsTotal(_)
LocalsTotal(locals) ==
    IF locals = <<>> THEN 0 ELSE Head(locals).count + LocalsTotal(Tail(locals))

\* Arguments plus declared local variables plus maximal value-stack height
\* of a defined function; 0 for an import.
CostPerVariable(f) ==
    LET m == st_in.module
        defined_func_idx == f - import_count(m, "Function")
    IN IF defined_func_idx < 0 THEN 0
       ELSE Len(resolve_func_type(f, m).params)
            + LocalsTotal(SectionEntries(m, "Code")[defined_func_idx + 1].locals)
            + max_stack_height(defined_func_idx, m)

\* The call at position k of a body follows a preamble.
AfterPreamble(code, k) ==
    /\ code[k].op = "Call" /\ k > 10
    /\ code[k - 10] = GetGlobal(StH) /\ code[k - 9].op = "I32Const" /\ code[k - 8] = I32Add
    /\ code[k].idx < functions_space(st_in.module)

\* Every preamble of the result charges Cost(f) for its callee f.
PreamblesCharge(Cost(_)) ==
    \A j \in DOMAIN SectionEntries(st_out.module, "Code") :
        LET code == SectionEntries(st_out.module, "Code")[j].code
        IN \A k \in DOMAIN code :
              AfterPreamble(code, k) =>
                 /\ code[k - 9].val = Cost(code[k].idx)
                 /\ code[k + 2] = I32Const(Cost(code[k].idx))

\* C28: for every defined function f the cost used in its preamble, its
\* postamble and its thunk is (number of arguments of f + number of declared
\* local variables of f, every variable of every local group counted) + the
\* maximal value-stack height of f; the cost of an imported function is 0.
C28_StackCost ==
    (StDone /\ st_out.status = "Ok") => PreamblesCharge(CostPerVariable)

\* What stack_cost computes: the number of local groups plus the maximal
\* value-stack height.
StackCostPerGroup ==
    (StDone /\ st_out.status = "Ok") => PreamblesCharge(StCost)

(***************************************************************************)
(* gas.rs: the instrumented body of a function, executed                   *)
(***************************************************************************)

Br(depth) == [op |-> "Br", depth |-> depth]
BrIf(depth) == [op |-> "BrIf", depth |-> depth]

MaxRunLen == 5
MaxSteps == 12

RunAlphabet == {BlockI, LoopI, IfI, Else, End, Br(0), Br(1), BrIf(0), I32Const(5)}

\* every branch of the sequence names a label that encloses it (the
\* function body being the outermost label)
BranchesResolve(x) ==
    \A p \in DOMAIN x :
        x[p].op \in {"Br", "BrIf"}
            => x[p].depth <= Len(Nesting(SubSeq(x, 1, p - 1), <<>>))

\* the sequences of at most n instructions whose blocks are closed in order
\* (some may still be open)
RECURSIVE RunPrefixes(_)
RunPrefixes(n) ==
    IF n = 0 THEN {<<>>}
    ELSE LET shorter == RunPrefixes(n - 1)
         IN shorter \cup
            {y \in {Append(q, a) : q \in {x \in shorter : Len(x) = n - 1}, a \in RunAlphabet} :
                Nesting(y, <<>>) # <<"bad">> /\ BranchesResolve(y)}

\* bodies with two levels of nesting, a call and a branch out of two blocks
RunLonger ==
    { <<LoopI, GetGlobal(0), BlockI, BrIf(1), I32Const(5), End, Call(1), BrIf(0), End, End>>,
      <<BlockI, LoopI, IfI, Br(2), Else, Br(1), End, End, I32Const(5), End, Drop, End>>,
      <<I32Const(5), IfI, LoopI, BrIf(0), Br(1), End, Else, Drop, BlockI, Br(2), End, End, End>> }

\* the function bodies that are executed
RunBodies ==
    {Append(q, End) : q \in {x \in RunPrefixes(MaxRunLen) : Nesting(x, <<>>) = <<>>}}
        \cup RunLonger

\* rule sets without a forbidden instruction and without a grow cost
RunRules ==
    { RulesSet(1, <<>>, 0),
      RulesSet(2, [t \in {"Const"} |-> Fixed(7)], 0),
      RulesSet(1, [t \in {"ControlFlow"} |-> Fixed(3)], 0) }

\* The position of the End that closes the block opened before position q,
\* depth nested blocks being open at q.
RECURSIVE ScanEnd(_, _, _)
ScanEnd(code, q, depth) ==
    IF q > Len(code) THEN q
    ELSE CASE code[q].op \in {"Block", "Loop", "If"} -> ScanEnd(code, q + 1, depth + 1)
           [] code[q].op = "End" ->
                IF depth = 0 THEN q ELSE ScanEnd(code, q + 1, depth - 1)
           [] OTHER -> ScanEnd(code, q + 1, depth)

\* The position of the Else of the If opened before position q, 0 without one.
RECURSIVE ScanElse(_, _, _)
ScanElse(code, q, depth) ==
    IF q > Len(code) THEN 0
    ELSE CASE code[q].op \in {"Block", "Loop", "If"} -> ScanElse(code, q + 1, depth + 1)
           [] code[q].op = "End" ->
                IF depth = 0 THEN 0 ELSE ScanElse(code, q + 1, depth - 1)
           [] code[q].op = "Else" /\ depth = 0 -> q
           [] OTHER -> ScanElse(code, q + 1, depth)

\* The blocks open in front of position p, outermost first: the position of
\* the Block, Loop or If that opened each, and the position of the
\* instruction its current part starts after (the opener, or the Else).
RECURSIVE Enclosing(_, _, _, _)
Enclosing(code, p, q, open) ==
    IF q >= p THEN open
    ELSE CASE code[q].op \in {"Block", "Loop", "If"} ->
                Enclosing(code, p, q + 1, Append(open, [opener |-> q, start |-> q]))
           [] code[q].op = "Else" ->
                Enclosing(code, p, q + 1, [open EXCEPT ![Len(open)].start = q])
           [] code[q].op = "End" ->
                Enclosing(code, p, q + 1, SubSeq(open, 1, Len(open) - 1))
           [] OTHER -> Enclosing(code, p, q + 1, open)

\* The number, in the order of their start, of the block that starts after
\* position s (the function body, which starts after position 0, is block 1).
BlockOfStart(code, s) ==
    1 + Cardinality({q \in 1 .. s : code[q].op \in {"Block", "Loop", "If", "Else"}})

\* The innermost block around the instruction at position p.
BlockAround(code, p) ==
    LET open == Enclosing(code, p, 1, <<>>)
    IN IF open = <<>> THEN 1 ELSE BlockOfStart(code, open[Len(open)].start)

\* Where a branch of the given depth at position p continues: the start of
\* the loop it names, the instruction after the End of the block or if it
\* names, or 0 when it names the function body.
BranchTarget(code, p, depth) ==
    LET open == Enclosing(code, p, 1, <<>>)
    IN IF depth >= Len(open) THEN [pc |-> 0, enters |-> 0]
       ELSE LET e == open[Len(open) - depth]
            IN IF code[e.opener].op = "Loop"
               THEN [pc |-> e.opener + 1, enters |-> BlockOfStart(code, e.opener)]
               ELSE [pc |-> ScanEnd(code, e.opener + 1, 0) + 1, enters |-> 0]

\* The instrumented body that is executed: the first defined function.
RunCodeGas == GasBodiesOut[1].code

\* The blocks inject_counter counted in the body handed in, in the order of
\* their start.
RunBlocks ==
    CounterLoop(update_call_index(GasBodiesIn[1].code, GasFunc), gas_in.rules, 0,
                begin(CounterNew, 0))[1].blocks

\* What the rules charge for an executed instruction of the body handed in;
\* inject_counter does not ask the rules about End and Else.
RuleCost(i) ==
    IF i.op \in {"End", "Else"} THEN 0 ELSE process(gas_in.rules, i)[1]

\* The machine in front of the first instruction: nothing charged, nothing
\* executed, the function body entered.
RunStart ==
    [status |-> "running", pc |-> 1, top |-> 0, charged |-> 0, spent |-> 0, steps |-> 0,
     calls |-> [b \in DOMAIN RunBlocks |-> 0],
     args |-> [b \in DOMAIN RunBlocks |-> 0],
     last |-> [blk |-> 0, calls |-> 0, arg |-> 0]]

\* Control goes to position pc; a block that is entered has seen no gas
\* call since.
RunGoto(run, pc, enters) ==
    LET r == IF enters = 0 THEN run ELSE [run EXCEPT !.calls[enters] = 0]
    IN IF pc = 0 \/ pc > Len(RunCodeGas)
       THEN [r EXCEPT !.status = "returned", !.pc = 0]
       ELSE [r EXCEPT !.pc = pc]

\* An instruction of the body handed in is executed: its rule cost is
\* spent, and the gas calls of its innermost block are noted.
RunOriginal(run) ==
    LET b == BlockAround(RunCodeGas, run.pc)
    IN [run EXCEPT !.spent = @ + RuleCost(RunCodeGas[run.pc]),
                   !.steps = @ + 1,
                   !.last = [blk |-> b, calls |-> run.calls[b], arg |-> run.args[b]]]

\* The machines one instruction later; the value tested by if and br_if is
\* either.
RunNextGas(run) ==
    LET code == RunCodeGas
        p == run.pc
        i == code[p]
        open == Enclosing(code, p, 1, <<>>)
        b == BlockAround(code, p)
    IN CASE i = Call(GasFunc) ->
              {RunGoto([run EXCEPT !.charged = @ + run.top,
                                   !.calls[b] = @ + 1,
                                   !.args[b] = run.top], p + 1, 0)}
         [] i.op = "I32Const" /\ p < Len(code) /\ code[p + 1] = Call(GasFunc) ->
              {RunGoto([run EXCEPT !.top = i.val], p + 1, 0)}
         [] i.op \in {"Block", "Loop"} ->
              {RunGoto(RunOriginal(run), p + 1, BlockOfStart(code, p))}
         [] i.op = "If" ->
              LET else == ScanElse(code, p + 1, 0)
              IN {RunGoto(RunOriginal(run), p + 1, BlockOfStart(code, p)),
                  IF else = 0
                  THEN RunGoto(RunOriginal(run), ScanEnd(code, p + 1, 0) + 1, 0)
                  ELSE RunGoto(RunOriginal(run), else + 1, BlockOfStart(code, else))}
         [] i.op = "Else" ->
              {RunGoto(RunOriginal(run),
                       ScanEnd(code, open[Len(open)].opener + 1, 0) + 1, 0)}
         [] i.op = "Br" ->
              LET t == BranchTarget(code, p, i.depth)
              IN {RunGoto(RunOriginal(run), t.pc, t.enters)}
         [] i.op = "BrIf" ->
              LET t == BranchTarget(code, p, i.depth)
              IN {RunGoto(RunOriginal(run), t.pc, t.enters),
                  RunGoto(RunOriginal(run), p + 1, 0)}
         [] OTHER -> {RunGoto(RunOriginal(run), p + 1, 0)}

RunChoices == [body : RunBodies, rules : RunRules]

GasRunInit ==
    /\ \E c \in RunChoices :
          gas_in = [module |-> GasBuild([nimp |-> 1, ndef |-> 1, body |-> c.body,
                                         rules |-> c.rules, refs |-> FALSE]),
                    rules |-> c.rules]
    /\ gas_out = GIdle
    /\ gas_pc = "start"
    /\ gas_run = GIdle

\* the host calls the instrumented function
GasEnter ==
    /\ gas_pc = "done" /\ gas_out.status = "Ok"
    /\ gas_pc' = "running"
    /\ gas_run' = RunStart
    /\ UNCHANGED <<gas_in, gas_out>>

\* one instruction of the instrumented body
GasStep ==
    /\ gas_pc = "running" /\ gas_run.status = "running"
    /\ gas_run.steps < MaxSteps
    /\ \E r \in RunNextGas(gas_run) : gas_run' = r
    /\ UNCHANGED <<gas_in, gas_out, gas_pc>>

InitGasRun == GasRunInit /\ OtherIdleGas

NextGasRun ==
    \/ GasInject /\ UNCHANGED <<rlVars, gVars, oVars, stVars, pkVars, xVars>>
    \/ GasEnter /\ UNCHANGED <<rlVars, gVars, oVars, stVars, pkVars, xVars>>
    \/ GasStep /\ UNCHANGED <<rlVars, gVars, oVars, stVars, pkVars, xVars>>

SpecGasRun == InitGasRun /\ [][NextGasRun]_vars

GasRunning == gas_pc = "running"

\* The cost inject_counter found for block b of the body, as the constant
\* of its gas call carries it.
InjectionCost(b) == as_i32(RunBlocks[b].cost)

\* C29: in every execution of an instrumented body, whatever branches it
\* takes, when an instruction of the original body has been executed, one
\* gas call had been executed since its innermost block was entered, and
\* that call charged the cost found for the block at injection; and the gas
\* charged so far is at least the rule cost of the original instructions
\* executed so far.
C29_ChargedAlongExecutions ==
    GasRunning =>
        /\ gas_run.last.blk # 0 =>
              /\ gas_run.last.calls = 1
              /\ gas_run.last.arg = InjectionCost(gas_run.last.blk)
        /\ gas_run.charged >= gas_run.spent

\* The cost of all blocks of the body, each charged once.
RECURSIVE ChargedOnce(_)
ChargedOnce(b) == IF b = 0 THEN 0 ELSE InjectionCost(b) + ChargedOnce(b - 1)

\* An execution went round a loop: more gas has been charged than all
\* blocks of the body cost together, and the instruction executed last
\* stands in an inner block.
C29_Witness ==
    /\ GasRunning
    /\ gas_run.last.blk > 1
    /\ gas_run.spent > 0
    /\ gas_run.charged > ChargedOnce(Len(RunBlocks))

\* ---- the export names of the packed module ----

\* The positions of the exports of m that have the given name.
PkNamed(m, name) ==
    {i \in DOMAIN SectionEntries(m, "Export") : SectionEntries(m, "Export")[i].field = name}

\* C30: the module pack_instance returns has exactly one export named call,
\* which stands where the create export stood and is the appended wrapper
\* function, and it has no export named deploy.
C30_PackedExportNames ==
    (PkDone /\ pk_out.status = "Ok") =>
        /\ Cardinality(PkNamed(PkOut, CALL_SYMBOL)) = 1
        /\ PkNamed(PkOut, CALL_SYMBOL) = PkDeployAt
        /\ \A i \in PkNamed(PkOut, CALL_SYMBOL) :
              SectionEntries(PkOut, "Export")[i].internal = [kind |-> "Function", idx |-> PkWrapper]
        /\ PkNamed(PkOut, CREATE_SYMBOL) = {}

\* What pack_instance does to the names: every create export has become a
\* call export of the wrapper, no create export is left, and every call
\* export of the constructor is still there.
PackedExportsRenamed ==
    (PkDone /\ pk_out.status = "Ok") =>
        /\ PkNamed(PkOut, CALL_SYMBOL) = PkDeployAt \cup PkNamed(PkIn, CALL_SYMBOL)
        /\ \A i \in PkDeployAt :
              SectionEntries(PkOut, "Export")[i].internal = [kind |-> "Function", idx |-> PkWrapper]
        /\ \A i \in PkNamed(PkIn, CALL_SYMBOL) :
              SectionEntries(PkOut, "Export")[i].field = CALL_SYMBOL
        /\ PkNamed(PkOut, CREATE_SYMBOL) = {}

====
